---------------------------- MODULE PolicyProofs ----------------------------
(***************************************************************************)
(* Proofs about PolicyEvaluation and PolicyMonitor, for any agreements,    *)
(* templates and transfers.                                                *)
(***************************************************************************)
EXTENDS PolicyInduction, TLAPS

----------------------------------------------------------------------------
(* The decision.                                                            *)

\* What throws makes the whole evaluation throw.
LEMMA MapResultsThrows ==
  ASSUME NEW results
  PROVE  MapResults(results) = "THROWS" <=> "THROWS" \in results
  BY DEF MapResults

\* What mapResults tells of the results it is given, when nothing throws.
LEMMA MapResultsMeaning ==
  ASSUME NEW results, "THROWS" \notin results
  PROVE  /\ MapResults(results) = "INVALID" <=> "INVALID" \in results
         /\ MapResults(results) = "VALID" <=>
              /\ "INVALID" \notin results
              /\ results = {} \/ "VALID" \in results
         /\ MapResults(results) = "INDECISIVE" <=>
              /\ {"INVALID", "VALID"} \cap results = {}
              /\ "INDECISIVE" \in results
<1>1. CASE results = {}
  BY <1>1 DEF MapResults
<1>2. CASE "INVALID" \in results
  BY <1>2 DEF MapResults
<1>3. CASE "INVALID" \notin results /\ "VALID" \in results
  BY <1>3 DEF MapResults
<1>4. CASE /\ {"INVALID", "VALID"} \cap results = {}
           /\ "INDECISIVE" \in results
  BY <1>4 DEF MapResults
<1>5. CASE /\ results # {}
           /\ {"INVALID", "VALID", "INDECISIVE"} \cap results = {}
  BY <1>5 DEF MapResults
<1> QED
  BY <1>1, <1>2, <1>3, <1>4, <1>5

\* The constraints throw when one of them is broken.
LEMMA ConstraintsThrow ==
  ASSUME NEW templates, NEW constraints, NEW context
  PROVE  EvaluateConstraints(templates, constraints, context) = "THROWS"
           <=> \E c \in constraints : Broken(templates, c, context)
  BY MapResultsThrows DEF EvaluateConstraints, Broken

\* The result of a rule's constraints.
LEMMA ConstraintsMeaning ==
  ASSUME NEW templates, NEW constraints, NEW context,
         \A c \in constraints : ~Broken(templates, c, context)
  PROVE  LET result == EvaluateConstraints(templates, constraints, context)
         IN /\ result = "INVALID" <=>
                 \E c \in constraints : Refuted(templates, c, context)
            /\ result = "VALID" <=>
                 /\ \A c \in constraints : ~Refuted(templates, c, context)
                 /\ \/ constraints = {}
                    \/ \E c \in constraints : Met(templates, c, context)
            /\ result = "INDECISIVE" <=>
                 /\ \A c \in constraints : /\ ~Refuted(templates, c, context)
                                           /\ ~Met(templates, c, context)
                 /\ \E c \in constraints : Undecided(templates, c, context)
<1> DEFINE results ==
      {EvaluateConstraint(templates, c, context) : c \in constraints}
<1>1. EvaluateConstraints(templates, constraints, context)
        = MapResults(results)
  BY DEF EvaluateConstraints
<1>2. /\ "INVALID" \in results <=>
           \E c \in constraints : Refuted(templates, c, context)
      /\ "VALID" \in results <=>
           \E c \in constraints : Met(templates, c, context)
      /\ "INDECISIVE" \in results <=>
           \E c \in constraints : Undecided(templates, c, context)
      /\ results = {} <=> constraints = {}
      /\ "THROWS" \notin results
  BY DEF Refuted, Met, Undecided, Broken
<1> HIDE DEF results
<1> QED
  BY <1>1, <1>2, MapResultsMeaning

\* A rule throws when it fits and one of its constraints is broken.
LEMMA RuleThrows ==
  ASSUME NEW templates, NEW r, NEW context, r.fits \in BOOLEAN
  PROVE  EvaluateRule(templates, r, context) = "THROWS"
           <=> r.fits /\ \E c \in r.constraint : Broken(templates, c, context)
  BY ConstraintsThrow DEF EvaluateRule

\* A prohibition denies exactly when it is in force.
LEMMA ProhibitionMeaning ==
  ASSUME NEW templates, NEW r, NEW context, r.fits \in BOOLEAN,
         EvaluateRule(templates, r, context) # "THROWS"
  PROVE  InForce(templates, r, context)
           <=> EvaluateRule(templates, r, context) \in {"VALID", "INDECISIVE"}
<1>1. CASE r.fits
  <2>1. EvaluateRule(templates, r, context)
          = EvaluateConstraints(templates, r.constraint, context)
    BY <1>1 DEF EvaluateRule
  <2>2. \A c \in r.constraint : ~Broken(templates, c, context)
    BY <2>1, ConstraintsThrow
  <2> QED
    BY <1>1, <2>1, <2>2, ConstraintsMeaning DEF InForce
<1>2. CASE ~r.fits
  BY <1>2 DEF EvaluateRule, InForce
<1> QED
  BY <1>1, <1>2

\* The duties of a permission throw when one that fits does.
LEMMA DutiesThrow ==
  ASSUME NEW templates, NEW r, NEW context,
         \A d \in r.duty : d.fits \in BOOLEAN
  PROVE  MapResults(DutyResults(templates, r, context)) = "THROWS"
           <=> \E d \in FittingDuties(r) :
                 \E c \in d.constraint : Broken(templates, c, context)
<1>1. "THROWS" \in DutyResults(templates, r, context)
        <=> \E d \in r.duty : EvaluateRule(templates, d, context) = "THROWS"
  BY DEF DutyResults
<1> QED
  BY <1>1, MapResultsThrows, RuleThrows DEF FittingDuties

\* The duties of a permission, together.
LEMMA DutiesMeaning ==
  ASSUME NEW templates, NEW r, NEW context, r.duty # {},
         \A d \in r.duty : d.fits \in BOOLEAN,
         MapResults(DutyResults(templates, r, context)) # "THROWS"
  PROVE  LET result == MapResults(DutyResults(templates, r, context))
         IN /\ result = "INVALID" <=>
                 \E d \in FittingDuties(r) :
                   \E c \in d.constraint : Refuted(templates, c, context)
            /\ result = "VALID" <=>
                 /\ \A d \in FittingDuties(r) :
                      \A c \in d.constraint : ~Refuted(templates, c, context)
                 /\ \E d \in FittingDuties(r) :
                      \/ d.constraint = {}
                      \/ \E c \in d.constraint : Met(templates, c, context)
            /\ result = "INDECISIVE" <=>
                 /\ \A d \in FittingDuties(r) :
                      /\ d.constraint # {}
                      /\ \A c \in d.constraint :
                           /\ ~Refuted(templates, c, context)
                           /\ ~Met(templates, c, context)
                 /\ \E d \in FittingDuties(r) :
                      \E c \in d.constraint : Undecided(templates, c, context)
<1> DEFINE results == DutyResults(templates, r, context)
           Of(d) == EvaluateConstraints(templates, d.constraint, context)
<1>0. /\ "THROWS" \notin results
      /\ \A d \in FittingDuties(r) :
           \A c \in d.constraint : ~Broken(templates, c, context)
  BY MapResultsThrows, DutiesThrow
<1>1. results # {}
  BY DEF DutyResults
<1>2. \A x \in {"INVALID", "VALID", "INDECISIVE"} :
        x \in results <=> \E d \in FittingDuties(r) : Of(d) = x
  BY DEF DutyResults, FittingDuties, EvaluateRule
<1>3. \A d \in FittingDuties(r) :
        /\ Of(d) = "INVALID" <=>
             \E c \in d.constraint : Refuted(templates, c, context)
        /\ Of(d) = "VALID" <=>
             /\ \A c \in d.constraint : ~Refuted(templates, c, context)
             /\ \/ d.constraint = {}
                \/ \E c \in d.constraint : Met(templates, c, context)
        /\ Of(d) = "INDECISIVE" <=>
             /\ \A c \in d.constraint : /\ ~Refuted(templates, c, context)
                                        /\ ~Met(templates, c, context)
             /\ \E c \in d.constraint : Undecided(templates, c, context)
  BY <1>0, ConstraintsMeaning
<1>4. /\ "INVALID" \in results <=> \E d \in FittingDuties(r) : Of(d) = "INVALID"
      /\ "VALID" \in results <=> \E d \in FittingDuties(r) : Of(d) = "VALID"
      /\ "INDECISIVE" \in results <=>
           \E d \in FittingDuties(r) : Of(d) = "INDECISIVE"
  BY <1>2
<1>5. \A d \in FittingDuties(r) :
        ~(Of(d) = "INVALID") /\ ~(Of(d) = "VALID") <=>
          /\ d.constraint # {}
          /\ \A c \in d.constraint : /\ ~Refuted(templates, c, context)
                                     /\ ~Met(templates, c, context)
  BY <1>3
<1>6. \A d \in FittingDuties(r) :
        /\ d.constraint # {}
        /\ \A c \in d.constraint : /\ ~Refuted(templates, c, context)
                                   /\ ~Met(templates, c, context)
        => (Of(d) = "INDECISIVE" <=>
              \E c \in d.constraint : Undecided(templates, c, context))
  BY <1>3
<1> DEFINE mapped == MapResults(results)
<1>7. /\ mapped = "INVALID" <=> "INVALID" \in results
      /\ mapped = "VALID" <=> "INVALID" \notin results /\ "VALID" \in results
      /\ mapped = "INDECISIVE" <=> /\ "INVALID" \notin results
                                   /\ "VALID" \notin results
                                   /\ "INDECISIVE" \in results
  <2> HIDE DEF results
  <2> QED
    BY <1>0, <1>1, MapResultsMeaning
<1> HIDE DEF results, Of, mapped
<1>8. mapped = "INVALID" <=>
        \E d \in FittingDuties(r) :
          \E c \in d.constraint : Refuted(templates, c, context)
  BY <1>3, <1>4, <1>7
<1>9. mapped = "VALID" <=>
        /\ \A d \in FittingDuties(r) :
             \A c \in d.constraint : ~Refuted(templates, c, context)
        /\ \E d \in FittingDuties(r) :
             \/ d.constraint = {}
             \/ \E c \in d.constraint : Met(templates, c, context)
  BY <1>3, <1>4, <1>7
<1>10. mapped = "INDECISIVE" <=>
         /\ \A d \in FittingDuties(r) :
              /\ d.constraint # {}
              /\ \A c \in d.constraint : /\ ~Refuted(templates, c, context)
                                         /\ ~Met(templates, c, context)
         /\ \E d \in FittingDuties(r) :
              \E c \in d.constraint : Undecided(templates, c, context)
  BY <1>4, <1>5, <1>6, <1>7
<1> QED
  BY <1>8, <1>9, <1>10 DEF mapped, results

\* A permission throws when it fits and a condition of its own or of its duties
\* is broken.
LEMMA PermissionThrows ==
  ASSUME NEW templates, NEW r, NEW context, r.fits \in BOOLEAN,
         \A d \in r.duty : d.fits \in BOOLEAN
  PROVE  EvaluatePermission(templates, r, context) = "THROWS"
           <=> r.fits /\ \E c \in Conditions(r) : Broken(templates, c, context)
<1> DEFINE own    == EvaluateConstraints(templates, r.constraint, context)
           duties == MapResults(DutyResults(templates, r, context))
           result == EvaluatePermission(templates, r, context)
<1>1. CASE ~r.fits
  BY <1>1 DEF EvaluatePermission
<1>2. ASSUME r.fits
      PROVE  result = "THROWS"
               <=> own = "THROWS" \/ (r.duty # {} /\ duties = "THROWS")
  <2>1. result = MapResults({own} \cup (IF r.duty = {} THEN {} ELSE {duties}))
    BY <1>2 DEF EvaluatePermission
  <2>2. \A results : MapResults(results) = "THROWS" <=> "THROWS" \in results
    BY MapResultsThrows
  <2> HIDE DEF own, duties, result
  <2>3. CASE r.duty = {}
    BY <2>1, <2>2, <2>3
  <2>4. CASE r.duty # {}
    BY <2>1, <2>2, <2>4
  <2> QED
    BY <2>3, <2>4
<1>3. own = "THROWS" <=> \E c \in r.constraint : Broken(templates, c, context)
  BY ConstraintsThrow
<1>4. duties = "THROWS"
        <=> \E d \in FittingDuties(r) :
              \E c \in d.constraint : Broken(templates, c, context)
  BY DutiesThrow
<1>5. r.duty = {} => FittingDuties(r) = {}
  BY DEF FittingDuties
<1>6. \A c : c \in Conditions(r) <=>
               \/ c \in r.constraint
               \/ \E d \in FittingDuties(r) : c \in d.constraint
  BY DEF Conditions
<1>7. CASE r.fits
  <2> HIDE DEF own, duties, result
  <2>1. result = "THROWS" <=> \E c \in Conditions(r) : Broken(templates, c, context)
    BY <1>2, <1>3, <1>4, <1>5, <1>6, <1>7
  <2> QED
    BY <1>7, <2>1 DEF result
<1> QED
  BY <1>1, <1>7

\* A permission is valid exactly when it grants, and undecided exactly when it
\* is doubtful.
LEMMA PermissionMeaning ==
  ASSUME NEW templates, NEW r, NEW context, r.fits \in BOOLEAN,
         \A d \in r.duty : d.fits \in BOOLEAN,
         EvaluatePermission(templates, r, context) # "THROWS"
  PROVE  LET result == EvaluatePermission(templates, r, context)
         IN /\ result = "VALID" <=> Grants(templates, r, context)
            /\ result = "INDECISIVE" <=> Doubtful(templates, r, context)
<1> DEFINE own    == EvaluateConstraints(templates, r.constraint, context)
           duties == MapResults(DutyResults(templates, r, context))
           result == EvaluatePermission(templates, r, context)
<1>0. ASSUME r.fits
      PROVE  /\ own # "THROWS"
             /\ \A c \in r.constraint : ~Broken(templates, c, context)
             /\ duties # "THROWS"
  <2>1. EvaluatePermission(templates, r, context) = "THROWS"
          <=> r.fits /\ \E c \in Conditions(r) : Broken(templates, c, context)
    BY PermissionThrows
  <2>2. \A c \in Conditions(r) : ~Broken(templates, c, context)
    BY <1>0, <2>1
  <2> QED
    BY <2>2, ConstraintsThrow, DutiesThrow DEF Conditions
<1>1. CASE ~r.fits
  BY <1>1 DEF EvaluatePermission, Grants, Doubtful, NotRefuted
<1>2. CASE r.fits /\ r.duty = {}
  <2>1. result = MapResults({own})
    BY <1>2 DEF EvaluatePermission
  <2>2. FittingDuties(r) = {} /\ Conditions(r) = r.constraint
    BY <1>2 DEF FittingDuties, Conditions
  <2>3. /\ result = "VALID" <=> own = "VALID"
        /\ result = "INDECISIVE" <=> own = "INDECISIVE"
    <3>1. own # "THROWS"
      BY <1>0, <1>2
    <3> HIDE DEF own
    <3> QED
      BY <2>1, <3>1, MapResultsMeaning
  <2>4. own = "VALID" <=> Grants(templates, r, context)
    BY <1>0, <1>2, <2>2, ConstraintsMeaning DEF Grants, NotRefuted
  <2>5. own = "INDECISIVE" <=> Doubtful(templates, r, context)
    <3>1. \A c : Undecided(templates, c, context) =>
                   /\ ~Met(templates, c, context)
                   /\ ~Refuted(templates, c, context)
      BY DEF Undecided, Met, Refuted
    <3> QED
      BY <1>0, <1>2, <2>2, <3>1, ConstraintsMeaning
         DEF Doubtful, Grants, NotRefuted
  <2> QED
    BY <2>3, <2>4, <2>5
<1>3. CASE r.fits /\ r.duty # {}
  <2>1. result = MapResults({own, duties})
    <3>1. {own} \cup {duties} = {own, duties}
      OBVIOUS
    <3> QED
      BY <1>3, <3>1 DEF EvaluatePermission
  <2>2. /\ result = "VALID" <=> /\ own # "INVALID" /\ duties # "INVALID"
                                /\ own = "VALID" \/ duties = "VALID"
        /\ result = "INDECISIVE" <=>
             /\ own \notin {"INVALID", "VALID"}
             /\ duties \notin {"INVALID", "VALID"}
             /\ own = "INDECISIVE" \/ duties = "INDECISIVE"
    <3>1. own # "THROWS" /\ duties # "THROWS"
      BY <1>0, <1>3
    <3> HIDE DEF own, duties, result
    <3> QED
      BY <2>1, <3>1, MapResultsMeaning
  <2>3. /\ own = "INVALID" <=>
             \E c \in r.constraint : Refuted(templates, c, context)
        /\ own = "VALID" <=>
             /\ \A c \in r.constraint : ~Refuted(templates, c, context)
             /\ \/ r.constraint = {}
                \/ \E c \in r.constraint : Met(templates, c, context)
        /\ own = "INDECISIVE" <=>
             /\ \A c \in r.constraint : /\ ~Refuted(templates, c, context)
                                        /\ ~Met(templates, c, context)
             /\ \E c \in r.constraint : Undecided(templates, c, context)
    BY <1>0, <1>3, ConstraintsMeaning
  <2>4. /\ duties = "INVALID" <=>
             \E d \in FittingDuties(r) :
               \E c \in d.constraint : Refuted(templates, c, context)
        /\ duties = "VALID" <=>
             /\ \A d \in FittingDuties(r) :
                  \A c \in d.constraint : ~Refuted(templates, c, context)
             /\ \E d \in FittingDuties(r) :
                  \/ d.constraint = {}
                  \/ \E c \in d.constraint : Met(templates, c, context)
        /\ duties = "INDECISIVE" <=>
             /\ \A d \in FittingDuties(r) :
                  /\ d.constraint # {}
                  /\ \A c \in d.constraint :
                       /\ ~Refuted(templates, c, context)
                       /\ ~Met(templates, c, context)
             /\ \E d \in FittingDuties(r) :
                  \E c \in d.constraint : Undecided(templates, c, context)
    BY <1>0, <1>3, DutiesMeaning
  <2>5. \A c : c \in Conditions(r) <=>
                 \/ c \in r.constraint
                 \/ \E d \in FittingDuties(r) : c \in d.constraint
    BY DEF Conditions
  <2>6. NotRefuted(templates, r, context)
          <=> own # "INVALID" /\ duties # "INVALID"
    BY <1>3, <2>3, <2>4, <2>5 DEF NotRefuted
  <2> HIDE DEF own, duties, result
  <2>7. result = "VALID" <=> Grants(templates, r, context)
    BY <2>2, <2>3, <2>4, <2>5, <2>6 DEF Grants, NotRefuted
  <2>8. result = "INDECISIVE" <=> Doubtful(templates, r, context)
    <3>1. ASSUME NotRefuted(templates, r, context),
                 ~Grants(templates, r, context)
          PROVE  /\ own \notin {"INVALID", "VALID"}
                 /\ duties \notin {"INVALID", "VALID"}
                 /\ own = "INDECISIVE" <=>
                      \E c \in r.constraint : Undecided(templates, c, context)
                 /\ duties = "INDECISIVE" <=>
                      \E d \in FittingDuties(r) :
                        \E c \in d.constraint :
                          Undecided(templates, c, context)
      <4>1. own # "INVALID" /\ duties # "INVALID"
        BY <3>1, <2>6
      <4>2. own # "VALID" /\ duties # "VALID"
        BY <3>1, <4>1, <2>2, <2>7
      <4>3. /\ r.constraint # {}
            /\ \A c \in Conditions(r) : /\ ~Refuted(templates, c, context)
                                         /\ ~Met(templates, c, context)
            /\ \A d \in FittingDuties(r) : d.constraint # {}
        BY <3>1 DEF Grants, NotRefuted
      <4> QED
        BY <4>1, <4>2, <4>3, <2>3, <2>4, <2>5
    <3>2. ASSUME result = "INDECISIVE"
          PROVE  /\ NotRefuted(templates, r, context)
                 /\ ~Grants(templates, r, context)
      BY <3>2, <2>2, <2>6, <2>7
    <3> QED
      BY <2>2, <2>5, <3>1, <3>2 DEF Doubtful
  <2> QED
    BY <2>7, <2>8 DEF result
<1> QED
  BY <1>1, <1>2, <1>3

\* An evaluation throws when a rule is faulty; otherwise the decision denies
\* exactly for the reasons an agreement gives.
LEMMA DecisionMeaning ==
  ASSUME NEW templates, NEW a, NEW context, Shaped(a),
         context.outsider \in BOOLEAN
  PROVE  /\ Evaluate(templates, a, context) = "THROWS"
              <=> Faulty(templates, a, context)
         /\ ~Faulty(templates, a, context) =>
              (Evaluate(templates, a, context) = "DENY"
                 <=> Forbidden(templates, a, context))
<1> DEFINE permissions == EvaluatePermissions(templates, a, context)
<1>1. CASE context.outsider
  BY <1>1 DEF Evaluate, Forbidden, Faulty
<1>2. ASSUME ~context.outsider
      PROVE  Throws(templates, a, context) <=> Faulty(templates, a, context)
  <2>1. "THROWS" \in permissions
          <=> \E r \in a.permission :
                r.fits /\ \E c \in Conditions(r) : Broken(templates, c, context)
    BY PermissionThrows DEF Shaped, EvaluatePermissions
  <2>2. \A rules \in {a.prohibition, a.obligation} :
          "THROWS" \in EvaluateRules(templates, rules, context)
            <=> \E r \in rules :
                  r.fits /\ \E c \in r.constraint : Broken(templates, c, context)
    BY RuleThrows DEF Shaped, EvaluateRules
  <2> QED
    BY <1>2, <2>1, <2>2 DEF Throws, Faulty
<1>3. CASE ~context.outsider /\ Throws(templates, a, context)
  BY <1>2, <1>3 DEF Evaluate
<1>4. CASE ~context.outsider /\ ~Throws(templates, a, context)
  <2>1. Prohibited(templates, a, context)
          <=> \E r \in a.prohibition : InForce(templates, r, context)
    <3>1. \A r \in a.prohibition :
            EvaluateRule(templates, r, context) # "THROWS"
      BY <1>4 DEF Throws, EvaluateRules
    <3> QED
      BY <3>1, ProhibitionMeaning DEF Shaped, Prohibited, EvaluateRules
  <2>2. \A r \in a.permission :
          LET result == EvaluatePermission(templates, r, context)
          IN /\ result = "VALID" <=> Grants(templates, r, context)
             /\ result = "INDECISIVE" <=> Doubtful(templates, r, context)
    <3>1. \A r \in a.permission :
            EvaluatePermission(templates, r, context) # "THROWS"
      BY <1>4 DEF Throws, EvaluatePermissions
    <3> QED
      BY <3>1, PermissionMeaning DEF Shaped
  <2>3. /\ "VALID" \in permissions
             <=> \E r \in a.permission : Grants(templates, r, context)
        /\ "INDECISIVE" \in permissions
             <=> \E r \in a.permission : Doubtful(templates, r, context)
    BY <2>2 DEF EvaluatePermissions
  <2>4. /\ Evaluate(templates, a, context) # "THROWS"
        /\ Evaluate(templates, a, context) = "DENY" <=>
             \/ Prohibited(templates, a, context)
             \/ "VALID" \notin permissions /\ "INDECISIVE" \in permissions
    BY <1>4 DEF Evaluate
  <2> HIDE DEF permissions
  <2> QED
    BY <1>2, <1>4, <2>1, <2>3, <2>4 DEF Forbidden
<1> QED
  BY <1>1, <1>3, <1>4

\* An evaluation allows, denies or throws.
LEMMA EvaluationTyped == EvaluationType
<1>1. \A t \in Transfer, context \in Context :
        Evaluate(Templates, agreement[t], context) \in Decision \cup {"THROWS"}
  BY DEF Evaluate, Decision
<1> QED
  BY <1>1 DEF Evaluation, EvaluationType

----------------------------------------------------------------------------
(* Types.                                                                   *)

LEMMA RequestContextType ==
  ASSUME NEW credential \in Credentials, NEW outsider \in BOOLEAN,
         NEW s \in Time
  PROVE  /\ RequestContext(credential, outsider, s) \in Context
         /\ RequestContext(credential, outsider, s).outsider = outsider
         /\ RequestContext(credential, outsider, s).values.credential
              = credential
  BY PolicyAssumption DEF RequestContext, Context, Value, Trigger

\* An evaluation that does not throw gives a row about the requester of the
\* context it was given.
LEMMA OutcomeType ==
  ASSUME NEW t \in Transfer, NEW context \in Context, now \in Time,
         Decides(t, context)
  PROVE  LET row == Outcome(t, context)
         IN /\ row \in Row
            /\ Requester(row) = <<context.values.credential, context.outsider>>
            /\ Explained(t, row)
<1>1. /\ Stamped(context) \in Context
      /\ Stamped(context).outsider = context.outsider
      /\ Stamped(context).values.credential = context.values.credential
  BY DEF Stamped, Context, Value
<1> DEFINE decision == Outcome(t, context).decision
<1>2. decision = Evaluate(Templates, agreement[t], Stamped(context))
  BY <1>1 DEF Outcome, Evaluation
<1>3. decision \in Decision
  <2>1. Evaluation[t][Stamped(context)] \in Decision \cup {"THROWS"}
    BY <1>1, EvaluationTyped DEF EvaluationType
  <2> QED
    BY <2>1 DEF Outcome, Decides
<1>4. /\ decision = "DENY"
           <=> Forbidden(Templates, agreement[t], Stamped(context))
      /\ ~Faulty(Templates, agreement[t], Stamped(context))
  <2>1. Stamped(context).outsider \in BOOLEAN
    BY <1>1 DEF Context
  <2>2. decision # "THROWS"
    BY DEF Decides
  <2> QED
    BY <1>2, <2>1, <2>2, AgreementAssumption, DecisionMeaning
<1>5. Outcome(t, context) = [context |-> Stamped(context), decision |-> decision]
  BY DEF Outcome
<1> HIDE DEF decision
<1> QED
  BY <1>1, <1>3, <1>4, <1>5 DEF Row, Requester, Explained

\* The context of a request is stamped with the time it has.
LEMMA RequestOutcome ==
  ASSUME NEW t \in Transfer, NEW credential \in Credentials,
         NEW outsider \in BOOLEAN, now \in Time,
         Decides(t, RequestContext(credential, outsider, now))
  PROVE  LET row == Outcome(t, RequestContext(credential, outsider, now))
         IN /\ row \in Row /\ Explained(t, row)
            /\ row.context
                 = RequestContext(row.context.values.credential,
                                  row.context.outsider, now)
<1> DEFINE context == RequestContext(credential, outsider, now)
<1>1. context \in Context
  BY RequestContextType
<1>2. Stamped(context) = context
  BY DEF Stamped, RequestContext
<1>3. Outcome(t, context).context = context
  BY <1>2 DEF Outcome
<1>4. context = RequestContext(context.values.credential, context.outsider, now)
  BY DEF RequestContext
<1> QED
  BY <1>1, <1>3, <1>4, OutcomeType

\* An evaluation for a transfer that has its row keeps the requester.
LEMMA LastContext ==
  ASSUME NEW t \in Transfer, monitor[t] \in Row, now \in Time, NEW context,
         \/ \E purpose \in Purposes : context = Told(t, purpose)
         \/ context = Continued(t),
         Decides(t, context)
  PROVE  LET row == Outcome(t, context)
         IN /\ row \in Row
            /\ Requester(row) = Requester(monitor[t])
            /\ Explained(t, row)
<1> DEFINE last == monitor[t].context
<1>1. last \in Context
  BY DEF Row
<1>2. /\ context \in Context
      /\ context.outsider = last.outsider
      /\ context.values.credential = last.values.credential
  <2>1. ASSUME NEW purpose \in Purposes,
               context = [last EXCEPT !.values.purpose = purpose]
        PROVE  /\ context \in Context
               /\ context.outsider = last.outsider
               /\ context.values.credential = last.values.credential
    BY <1>1, <2>1 DEF Context, Value
  <2>2. ASSUME context = [last EXCEPT !.scope = "CONTINUOUS"]
        PROVE  /\ context \in Context
               /\ context.outsider = last.outsider
               /\ context.values.credential = last.values.credential
    BY <1>1, <2>2 DEF Context, Trigger
  <2> QED
    BY <2>1, <2>2 DEF Told, Continued
<1> QED
  BY <1>2, OutcomeType DEF Requester

LEMMA RowsArePresent == Absent \notin Row
  BY DEF Row, Absent, Decision

\* What the types say of the rows that can be read.
LEMMA Typed ==
  ASSUME TypeOK
  PROVE  /\ now \in Time
         /\ \A t \in Transfer : monitor[t] # Absent => monitor[t] \in Row
  BY DEF TypeOK

Rounds == [pc   : {"idle", "next", "record", "suspend", "tell", "save"},
           todo : SUBSET Transfer,
           at   : Transfer \cup {"none"},
           row  : Row \cup {Absent}]

\* A round that goes on has its type, and is about no transfer.
LEMMA AdvanceType ==
  ASSUME NEW todo \in SUBSET Transfer, Advance(todo)
  PROVE  /\ round' \in Rounds
         /\ round'.pc \in {"idle", "next"} /\ round'.todo \subseteq todo
<1>1. CASE todo = {}
  BY <1>1 DEF Advance, NoRound, Rounds
<1>2. CASE todo # {}
  <2>1. round' = [NoRound EXCEPT !.pc = "next", !.todo = todo]
    BY <1>2 DEF Advance
  <2> QED
    BY <2>1 DEF NoRound, Rounds
<1> QED
  BY <1>1, <1>2

\* What the steps that evaluate leave.
LEMMA RequestEvaluates ==
  ASSUME TypeOK, NEW t \in Transfer, Request(t)
  PROVE  \/ handler' = [handler EXCEPT ![t] = Over]
         \/ \E row \in Row :
              /\ handler' = [handler EXCEPT ![t] = [pc |-> "record", row |-> row]]
              /\ Explained(t, row)
              /\ row.context = RequestContext(row.context.values.credential,
                                              row.context.outsider, now)
<1>1. PICK credential \in Credentials, outsider \in BOOLEAN :
        LET context == RequestContext(credential, outsider, now)
        IN handler' = [handler EXCEPT ![t] =
             IF Decides(t, context)
             THEN [pc |-> "record", row |-> Outcome(t, context)] ELSE Over]
  BY DEF Request
<1> DEFINE context == RequestContext(credential, outsider, now)
<1>2. CASE Decides(t, context)
  BY <1>1, <1>2, Typed, RequestOutcome
<1>3. CASE ~Decides(t, context)
  BY <1>1, <1>3
<1> QED
  BY <1>2, <1>3

LEMMA DataPlaneEvaluates ==
  ASSUME TypeOK, NEW t \in Transfer, EvaluateDataPlane(t)
  PROVE  \E row \in Row :
           /\ asked' = [pc |-> "record", at |-> t, row |-> row]
           /\ Requester(row) = Requester(monitor[t])
           /\ Explained(t, row)
<1>1. PICK purpose \in Purposes :
        /\ Decides(t, Told(t, purpose))
        /\ asked' = [pc  |-> "record", at |-> t,
                     row |-> Outcome(t, Told(t, purpose))]
  BY DEF EvaluateDataPlane
<1>2. monitor[t] \in Row
  BY Typed DEF EvaluateDataPlane
<1> QED
  BY <1>1, <1>2, Typed, LastContext

LEMMA CheckEvaluates ==
  ASSUME TypeOK, NEW t \in Transfer, CheckTransfer(t), monitor[t] # Absent
  PROVE  \E row \in Row :
           /\ round' = [pc   |-> "record",
                        todo |-> round.todo \ {t},
                        at   |-> t,
                        row  |-> row]
           /\ Requester(row) = Requester(monitor[t])
           /\ Explained(t, row)
<1>1. /\ Decides(t, Continued(t))
      /\ round' = [pc   |-> "record",
                   todo |-> round.todo \ {t},
                   at   |-> t,
                   row  |-> Outcome(t, Continued(t))]
  BY DEF CheckTransfer
<1>2. monitor[t] \in Row
  BY Typed
<1> QED
  BY <1>1, <1>2, Typed, LastContext

\* A move is of a transfer that exists.
LEMMA MoveKeeps ==
  ASSUME TypeOK, NEW t \in Transfer, NEW s \in State,
         Move(t, s) \/ HalfMove(t, s)
  PROVE  /\ UNCHANGED <<monitor, handler, asked, round, now>>
         /\ state[t] # "none" /\ s # "none"
         /\ \A u \in Transfer : state[u] = "none" <=> state'[u] = "none"
<1>1. /\ UNCHANGED <<monitor, handler, asked, round, now>>
      /\ state[t] # "none" /\ s # "none"
  BY DEF Move, HalfMove, Moves, Follows, Final
<1>2. state' = state \/ state' = [state EXCEPT ![t] = s]
  BY DEF Move, HalfMove
<1> QED
  BY <1>1, <1>2 DEF TypeOK

\* Types are preserved.
LEMMA TypeInit == Init => TypeOK
  BY PolicyAssumption, EvaluationTyped
     DEF Init, TypeOK, State, Idle, NotAsked, NoRound, Time

LEMMA TypeNext == TypeOK /\ [Next]_vars => TypeOK'
<1> SUFFICES ASSUME TypeOK, [Next]_vars PROVE TypeOK'
  OBVIOUS
<1>0. now \in Time
  BY DEF TypeOK
<1>a. EvaluationType'
  BY EvaluationTyped
<1> USE <1>a DEF TypeOK, transfers
<1>1. ASSUME NEW t \in Transfer, Request(t) PROVE TypeOK'
  <2>1. handler' \in [Transfer -> [pc  : {"idle", "record", "save", "over"},
                                  row : Row \cup {Absent}]]
    <3>1. \/ handler' = [handler EXCEPT ![t] = Over]
          \/ \E row \in Row :
               handler' = [handler EXCEPT ![t] = [pc |-> "record", row |-> row]]
      <4> HIDE DEF TypeOK, transfers
      <4> QED
        BY <1>1, RequestEvaluates
    <3> QED
      BY <3>1 DEF Over
  <2> QED
    BY <1>1, <2>1 DEF Request
<1>2. ASSUME NEW t \in Transfer, RecordRequest(t) PROVE TypeOK'
  BY <1>2 DEF RecordRequest, Over
<1>3. ASSUME NEW t \in Transfer, SaveTransfer(t) PROVE TypeOK'
  BY <1>3 DEF SaveTransfer, Over, State
<1>4. ASSUME NEW t \in Transfer, NEW s \in State, Move(t, s) \/ HalfMove(t, s)
      PROVE  TypeOK'
  <2>1. moves' \in 0..MaxMoves /\ trouble' \in 0..MaxTrouble
    BY <1>4, PolicyAssumption DEF Move, HalfMove, Moves
  <2>2. data' \in [Transfer -> BOOLEAN]
    BY <1>4 DEF Move, HalfMove, Serve
  <2>3. state' \in [Transfer -> State] /\ peer' \in [Transfer -> State]
    BY <1>4 DEF Move, HalfMove
  <2> QED
    BY <1>4, <2>1, <2>2, <2>3 DEF Move, HalfMove, Moves
<1>5. ASSUME NEW t \in Transfer, EvaluateDataPlane(t) PROVE TypeOK'
  <2>1. PICK row \in Row : asked' = [pc |-> "record", at |-> t, row |-> row]
    <3> HIDE DEF TypeOK, transfers
    <3> QED
      BY <1>5, DataPlaneEvaluates
  <2>2. moves' \in 0..MaxMoves
    BY <1>5, PolicyAssumption DEF EvaluateDataPlane
  <2> QED
    BY <1>5, <2>1, <2>2 DEF EvaluateDataPlane
<1>6. CASE RecordDataPlane
  <2>1. monitor' \in [Transfer -> Row \cup {Absent}]
    BY <1>6 DEF RecordDataPlane
  <2> QED
    BY <1>6, <2>1 DEF RecordDataPlane, NotAsked
<1>7. CASE BeginRound
  <2>1. PICK todo \in SUBSET Transfer :
          round' = [NoRound EXCEPT !.pc = "next", !.todo = todo]
    <3> HIDE DEF TypeOK, transfers
    <3> QED
      BY <1>7 DEF BeginRound
  <2>2. round' \in Rounds
    <3> HIDE DEF TypeOK, transfers
    <3> QED
      BY <2>1 DEF NoRound, Rounds
  <2> QED
    BY <1>7, <2>2 DEF BeginRound, Rounds
<1>8. ASSUME NEW t \in Transfer, CheckTransfer(t) PROVE TypeOK'
  <2>1. CASE monitor[t] = Absent
    <3>1. Advance(round.todo \ {t})
      BY <1>8, <2>1 DEF CheckTransfer
    <3>2. round' \in Rounds
      BY <3>1, AdvanceType
    <3> QED
      BY <1>8, <3>2 DEF CheckTransfer, Rounds
  <2>2. CASE monitor[t] # Absent
    <3>1. PICK row \in Row : round' = [pc   |-> "record",
                                       todo |-> round.todo \ {t},
                                       at   |-> t,
                                       row  |-> row]
      <4> HIDE DEF TypeOK, transfers
      <4> QED
        BY <1>8, <2>2, CheckEvaluates
    <3>2. round' \in Rounds
      BY <3>1 DEF Rounds
    <3> QED
      BY <1>8, <3>2 DEF CheckTransfer, Rounds
  <2> QED
    BY <2>1, <2>2
<1>9. CASE RecordCheck
  <2>1. monitor' \in [Transfer -> Row \cup {Absent}]
    BY <1>9 DEF RecordCheck
  <2>2. round' \in Rounds
    <3>1. CASE round.row.decision = "DENY"
      BY <1>9, <3>1 DEF RecordCheck, Rounds
    <3>2. CASE round.row.decision # "DENY"
      BY <1>9, <3>2, AdvanceType DEF RecordCheck
    <3> QED
      BY <3>1, <3>2
  <2> QED
    BY <1>9, <2>1, <2>2 DEF RecordCheck, Rounds
<1>10. CASE Suspend \/ TellPeer
  <2>1. round' \in Rounds
    BY <1>10 DEF Suspend, TellPeer, Rounds
  <2>2. data' \in [Transfer -> BOOLEAN] /\ UNCHANGED state
    BY <1>10 DEF Suspend, TellPeer
  <2>3. peer' \in [Transfer -> State]
    BY <1>10 DEF Suspend, TellPeer, State
  <2> QED
    BY <1>10, <2>1, <2>2, <2>3 DEF Suspend, TellPeer, Rounds
<1>11. CASE SaveSuspended
  <2>1. round' \in Rounds
    BY <1>11, AdvanceType DEF SaveSuspended
  <2>2. state' \in [Transfer -> State]
    BY <1>11 DEF SaveSuspended, State
  <2> QED
    BY <1>11, <2>1, <2>2 DEF SaveSuspended, Rounds
<1>12. ASSUME SuspendFails \/ \E t \in Transfer : CheckFails(t) PROVE TypeOK'
  BY <1>12 DEF SuspendFails, CheckFails, Forget, Idle, Over, NotAsked, NoRound
<1>13. CASE Tick
  BY <1>13, PolicyAssumption DEF Tick, Time
<1>14. ASSUME NEW t \in Transfer, GoDown(t) PROVE TypeOK'
  BY <1>14, PolicyAssumption DEF GoDown
<1>15. ASSUME NEW t \in Transfer, ComeBack(t) PROVE TypeOK'
  BY <1>15 DEF ComeBack
<1>16. CASE Restart
  BY <1>16, PolicyAssumption
     DEF Restart, Forget, Idle, Over, NotAsked, NoRound
<1>17. CASE UNCHANGED vars
  BY <1>17 DEF vars
<1> QED
  BY <1>1, <1>2, <1>3, <1>4, <1>5, <1>6, <1>7, <1>8, <1>9, <1>10, <1>11,
     <1>12, <1>13, <1>14, <1>15, <1>16, <1>17 DEF Next, RoundStep

\* Every reachable state has its type.
THEOREM PolicyTypes == Spec => []TypeOK
  BY TypeInit, TypeNext, PTL DEF Spec
----------------------------------------------------------------------------
(* The invariant.                                                           *)

LEMMA PolicyInit == Init => PolicyInv
  BY DEF Init, PolicyInv, RequestsInv, UnderWayInv, ExplainedInv,
         AdmissionInv, RoundInv, SuspendInv, NothingYet, Idle, NotAsked,
         NoRound

\* Time moves on, so what was allowed once stays so.
LEMMA AllowedStays ==
  ASSUME NEW t \in Transfer, NEW credential, NEW outsider,
         now \in Nat, now' \in Nat, now <= now',
         AllowedOnce(t, credential, outsider)
  PROVE  AllowedOnce(t, credential, outsider)'
  BY DEF AllowedOnce

\* The parts about requests and admissions.
LEMMA RequestsNext ==
  ASSUME TypeOK, PolicyInv, [Next]_vars PROVE RequestsInv'
<1> USE DEF RequestsInv, NothingYet, transfers
<1>0. /\ RequestsInv /\ UnderWayInv /\ AdmissionInv /\ RoundInv /\ SuspendInv
      /\ now \in Nat
  BY PolicyAssumption DEF PolicyInv, TypeOK, Time
<1>1. ASSUME NEW t \in Transfer, Request(t) PROVE RequestsInv'
  <2>1. CASE handler' = [handler EXCEPT ![t] = Over]
    BY <1>0, <1>1, <2>1 DEF Request, Over, TypeOK
  <2>2. CASE handler' # [handler EXCEPT ![t] = Over]
    <3>1. PICK row \in Row :
            /\ handler' = [handler EXCEPT ![t] = [pc |-> "record", row |-> row]]
            /\ row.context = RequestContext(row.context.values.credential,
                                            row.context.outsider, now)
      BY <1>1, <2>2, RequestEvaluates
    <3>2. handler'[t] = [pc |-> "record", row |-> row]
      BY <3>1 DEF TypeOK
    <3>3. now \in 0..now' /\ handler[t].pc = "idle"
      BY <1>0, <1>1 DEF Request
    <3>4. \A u \in Transfer \ {t} : handler'[u] = handler[u]
      BY <3>1 DEF TypeOK
    <3>5. UNCHANGED <<monitor, state, now>>
      BY <1>1 DEF Request
    <3> QED
      BY <1>0, <3>1, <3>2, <3>3, <3>4, <3>5
  <2> QED
    BY <2>1, <2>2
<1>2. ASSUME NEW t \in Transfer, RecordRequest(t) PROVE RequestsInv'
  BY <1>0, <1>2 DEF RecordRequest, Over, TypeOK
<1>3. ASSUME NEW t \in Transfer, SaveTransfer(t) PROVE RequestsInv'
  BY <1>0, <1>3 DEF SaveTransfer, Over, TypeOK
<1>4. ASSUME NEW t \in Transfer, NEW s \in State, Move(t, s) \/ HalfMove(t, s)
      PROVE  RequestsInv'
  <2>1. /\ state[t] # "none" /\ UNCHANGED <<handler, monitor, now>>
        /\ \A u \in Transfer : state[u] = "none" => state'[u] = "none"
    BY <1>4, MoveKeeps
  <2> QED
    BY <1>0, <2>1
<1>5. ASSUME NEW t \in Transfer, EvaluateDataPlane(t) PROVE RequestsInv'
  BY <1>0, <1>5 DEF EvaluateDataPlane
<1>6. CASE RecordDataPlane
  <2>1. asked.at \in Transfer /\ monitor[asked.at] # Absent
    BY <1>0, <1>6 DEF RecordDataPlane, UnderWayInv, AboutRow
  <2> QED
    BY <1>0, <1>6, <2>1 DEF RecordDataPlane, TypeOK
<1>7. CASE BeginRound
  BY <1>0, <1>7 DEF BeginRound
<1>8. ASSUME NEW t \in Transfer, CheckTransfer(t) PROVE RequestsInv'
  BY <1>0, <1>8 DEF CheckTransfer
<1>9. CASE RecordCheck
  <2>1. round.at \in Transfer /\ monitor[round.at] # Absent
    BY <1>0, <1>9 DEF RecordCheck, UnderWayInv, AboutRow
  <2> QED
    BY <1>0, <1>9, <2>1 DEF RecordCheck, TypeOK
<1>10. CASE Suspend \/ TellPeer
  BY <1>0, <1>10 DEF Suspend, TellPeer
<1>11. CASE SaveSuspended
  <2>1. round.at \in Transfer /\ state[round.at] # "none"
    BY <1>0, <1>11 DEF SaveSuspended, UnderWayInv, SuspendInv
  <2> QED
    BY <1>0, <1>11, <2>1 DEF SaveSuspended, TypeOK
<1>12. CASE Forget /\ UNCHANGED <<monitor, state, now>>
  BY <1>0, <1>12 DEF Forget, Idle, Over
<1>13. CASE Tick
  <2>1. 0..now \subseteq 0..now'
    BY <1>0, <1>13 DEF Tick
  <2> QED
    BY <1>0, <1>13, <2>1 DEF Tick
<1>14. ASSUME NEW t \in Transfer, GoDown(t) \/ ComeBack(t)
       PROVE  RequestsInv'
  BY <1>0, <1>14 DEF GoDown, ComeBack
<1>15. CASE UNCHANGED vars
  BY <1>0, <1>15 DEF vars
<1> QED
  BY <1>1, <1>2, <1>3, <1>4, <1>5, <1>6, <1>7, <1>8, <1>9, <1>10, <1>11,
     <1>12, <1>13, <1>14, <1>15
     DEF Next, RoundStep, SuspendFails, CheckFails, Restart, transfers
\* The parts about the evaluations under way and the round.
LEMMA UnderWayNext ==
  ASSUME TypeOK, PolicyInv, [Next]_vars
  PROVE  UnderWayInv' /\ RoundInv' /\ SuspendInv'
<1> DEFINE Goal == UnderWayInv /\ RoundInv /\ SuspendInv
<1> USE DEF UnderWayInv, RoundInv, SuspendInv, AboutRow, Requester, transfers
<1>0. /\ RequestsInv /\ UnderWayInv /\ AdmissionInv /\ RoundInv /\ SuspendInv
  BY DEF PolicyInv
<1>1. ASSUME NEW t \in Transfer, Request(t) PROVE Goal'
  BY <1>0, <1>1 DEF Request
<1>2. ASSUME NEW t \in Transfer, RecordRequest(t) PROVE Goal'
  <2>1. monitor[t] = Absent /\ monitor'[t] \in Row
    BY <1>0, <1>2 DEF RequestsInv, NothingYet, RecordRequest, TypeOK
  <2>2. \A u \in Transfer \ {t} : monitor'[u] = monitor[u]
    BY <1>2 DEF RecordRequest, TypeOK
  <2> QED
    BY <1>0, <1>2, <2>1, <2>2 DEF RecordRequest
<1>3. ASSUME NEW t \in Transfer, SaveTransfer(t) PROVE Goal'
  BY <1>0, <1>3 DEF SaveTransfer, TypeOK
<1>4. ASSUME NEW t \in Transfer, NEW s \in State, Move(t, s) \/ HalfMove(t, s)
      PROVE  Goal'
  <2>1. /\ UNCHANGED <<monitor, asked, round>>
        /\ \A u \in Transfer : state[u] # "none" => state'[u] # "none"
    BY <1>4, MoveKeeps
  <2> QED
    BY <1>0, <2>1 DEF TypeOK
<1>5. ASSUME NEW t \in Transfer, EvaluateDataPlane(t) PROVE Goal'
  <2>1. PICK row \in Row :
          /\ asked' = [pc |-> "record", at |-> t, row |-> row]
          /\ Requester(row) = Requester(monitor[t])
    BY <1>5, DataPlaneEvaluates
  <2>2. monitor[t] # Absent
    BY <1>5 DEF EvaluateDataPlane
  <2> QED
    BY <1>0, <1>5, <2>1, <2>2 DEF EvaluateDataPlane
<1>6. CASE RecordDataPlane
  <2>1. AboutRow(asked.at, asked.row)
    BY <1>0, <1>6 DEF RecordDataPlane
  <2>2. /\ monitor' = [monitor EXCEPT ![asked.at] = asked.row]
        /\ asked'.pc = "idle" /\ UNCHANGED <<state, round>>
    BY <1>6 DEF RecordDataPlane, NotAsked
  <2>3. \A u \in Transfer : monitor[u] # Absent =>
          monitor'[u] # Absent /\ Requester(monitor'[u]) = Requester(monitor[u])
    BY <2>1, <2>2, RowsArePresent DEF TypeOK
  <2> QED
    BY <1>0, <2>2, <2>3
<1>7. CASE BeginRound
  <2>1. \A t \in round'.todo : state[t] # "none"
    BY <1>7 DEF BeginRound
  <2>2. round'.pc = "next"
    BY <1>7 DEF BeginRound, NoRound
  <2> QED
    BY <1>0, <1>7, <2>1, <2>2 DEF BeginRound
<1>8. ASSUME NEW t \in Transfer, CheckTransfer(t) PROVE Goal'
  <2>1. CASE monitor[t] = Absent
    <3>1. round'.pc \in {"idle", "next"} /\ round'.todo \subseteq round.todo
      BY <1>8, <2>1, AdvanceType DEF CheckTransfer, TypeOK
    <3> QED
      BY <1>0, <1>8, <3>1 DEF CheckTransfer
  <2>2. CASE monitor[t] # Absent
    <3>1. PICK row \in Row :
            /\ round' = [pc   |-> "record",
                         todo |-> round.todo \ {t},
                         at   |-> t,
                         row  |-> row]
            /\ Requester(row) = Requester(monitor[t])
      BY <1>8, <2>2, CheckEvaluates
    <3>2. t \in round.todo /\ UNCHANGED <<state, monitor, asked>>
      BY <1>8 DEF CheckTransfer
    <3> QED
      BY <1>0, <2>2, <3>1, <3>2
  <2> QED
    BY <2>1, <2>2
<1>9. CASE RecordCheck
  <2>1. AboutRow(round.at, round.row)
    BY <1>0, <1>9 DEF RecordCheck
  <2>2. monitor' = [monitor EXCEPT ![round.at] = round.row]
    BY <1>9 DEF RecordCheck
  <2>3. \A u \in Transfer : monitor[u] # Absent =>
          monitor'[u] # Absent /\ Requester(monitor'[u]) = Requester(monitor[u])
    BY <2>1, <2>2, RowsArePresent DEF TypeOK
  <2>4. \/ /\ round'.pc = "suspend" /\ round'.at = round.at
           /\ round'.todo = round.todo
        \/ round'.pc \in {"idle", "next"} /\ round'.todo \subseteq round.todo
    BY <1>9, AdvanceType DEF RecordCheck, TypeOK
  <2>5. UNCHANGED <<state, asked>> /\ round.pc = "record"
    BY <1>9 DEF RecordCheck
  <2> QED
    BY <1>0, <2>1, <2>3, <2>4, <2>5
<1>10. CASE Suspend \/ TellPeer
  BY <1>0, <1>10 DEF Suspend, TellPeer, TypeOK
<1>11. CASE SaveSuspended
  <2>1. round'.pc \in {"idle", "next"} /\ round'.todo \subseteq round.todo
    BY <1>11, AdvanceType DEF SaveSuspended, TypeOK
  <2>2. \A u \in Transfer : state[u] # "none" => state'[u] # "none"
    BY <1>11 DEF SaveSuspended, TypeOK
  <2> QED
    BY <1>0, <1>11, <2>1, <2>2 DEF SaveSuspended, TypeOK
<1>12. CASE Forget /\ UNCHANGED <<monitor, state, now>>
  BY <1>0, <1>12 DEF Forget, NotAsked, NoRound
<1>13. CASE Tick
  BY <1>0, <1>13 DEF Tick
<1>14. ASSUME NEW t \in Transfer, GoDown(t) \/ ComeBack(t) PROVE Goal'
  BY <1>0, <1>14 DEF GoDown, ComeBack
<1>15. CASE UNCHANGED vars
  BY <1>0, <1>15 DEF vars
<1> QED
  BY <1>1, <1>2, <1>3, <1>4, <1>5, <1>6, <1>7, <1>8, <1>9, <1>10, <1>11,
     <1>12, <1>13, <1>14, <1>15
     DEF Next, RoundStep, SuspendFails, CheckFails, Restart, transfers

\* The part about decisions: each evaluation is explained when it is made, and
\* only evaluations are saved.
LEMMA ExplainedNext ==
  ASSUME TypeOK, PolicyInv, [Next]_vars PROVE ExplainedInv'
<1> USE DEF ExplainedInv, transfers
<1>0. ExplainedInv /\ UnderWayInv /\ RequestsInv
  BY DEF PolicyInv
<1>1. ASSUME NEW t \in Transfer, Request(t) PROVE ExplainedInv'
  <2>1. CASE handler' = [handler EXCEPT ![t] = Over]
    BY <1>0, <1>1, <2>1 DEF Request, Over, TypeOK, Explained
  <2>2. CASE handler' # [handler EXCEPT ![t] = Over]
    <3>1. PICK row \in Row :
            /\ handler' = [handler EXCEPT ![t] = [pc |-> "record", row |-> row]]
            /\ Explained(t, row)
      BY <1>1, <2>2, RequestEvaluates
    <3>2. /\ handler'[t].row = row
          /\ \A u \in Transfer \ {t} : handler'[u] = handler[u]
      BY <3>1 DEF TypeOK
    <3> QED
      BY <1>0, <1>1, <3>1, <3>2 DEF Request, Explained
  <2> QED
    BY <2>1, <2>2
<1>2. ASSUME NEW t \in Transfer, RecordRequest(t) PROVE ExplainedInv'
  BY <1>0, <1>2 DEF RecordRequest, TypeOK, Over, Explained
<1>3. ASSUME NEW t \in Transfer, SaveTransfer(t) PROVE ExplainedInv'
  BY <1>0, <1>3 DEF SaveTransfer, TypeOK, Over, Explained
<1>4. ASSUME NEW t \in Transfer, NEW s \in State, Move(t, s) \/ HalfMove(t, s)
      PROVE  ExplainedInv'
  <2>1. UNCHANGED <<monitor, handler, asked, round>>
    BY <1>4, MoveKeeps
  <2> QED
    BY <1>0, <2>1 DEF Explained
<1>5. ASSUME NEW t \in Transfer, EvaluateDataPlane(t) PROVE ExplainedInv'
  <2>1. PICK row \in Row :
          /\ asked' = [pc |-> "record", at |-> t, row |-> row]
          /\ Explained(t, row)
    BY <1>5, DataPlaneEvaluates
  <2> QED
    BY <1>0, <1>5, <2>1 DEF EvaluateDataPlane, Explained
<1>6. CASE RecordDataPlane
  BY <1>0, <1>6 DEF RecordDataPlane, TypeOK, NotAsked, Explained
<1>7. CASE BeginRound
  BY <1>0, <1>7 DEF BeginRound, NoRound, Explained
<1>8. ASSUME NEW t \in Transfer, CheckTransfer(t) PROVE ExplainedInv'
  <2>1. CASE monitor[t] = Absent
    <3>1. round'.pc \in {"idle", "next"}
      BY <1>8, <2>1, AdvanceType DEF CheckTransfer, TypeOK
    <3> QED
      BY <1>0, <1>8, <3>1 DEF CheckTransfer, Explained
  <2>2. CASE monitor[t] # Absent
    <3>1. PICK row \in Row : round'.at = t /\ round'.row = row /\ Explained(t, row)
      BY <1>8, <2>2, CheckEvaluates
    <3> QED
      BY <1>0, <1>8, <3>1 DEF CheckTransfer, Explained
  <2> QED
    BY <2>1, <2>2
<1>9. CASE RecordCheck
  <2>1. round'.pc # "record"
    BY <1>9, AdvanceType DEF RecordCheck, TypeOK
  <2> QED
    BY <1>0, <1>9, <2>1 DEF RecordCheck, TypeOK, Explained
<1>10. CASE Suspend \/ TellPeer
  BY <1>0, <1>10 DEF Suspend, TellPeer, TypeOK, Explained
<1>11. CASE SaveSuspended
  <2>1. round'.pc # "record"
    BY <1>11, AdvanceType DEF SaveSuspended, TypeOK
  <2> QED
    BY <1>0, <1>11, <2>1 DEF SaveSuspended, Explained
<1>12. CASE Forget /\ UNCHANGED <<monitor, state, now>>
  BY <1>0, <1>12 DEF Forget, Idle, Over, NotAsked, NoRound, Explained
<1>13. CASE Tick
  BY <1>0, <1>13 DEF Tick, Explained
<1>14. ASSUME NEW t \in Transfer, GoDown(t) \/ ComeBack(t)
       PROVE  ExplainedInv'
  BY <1>0, <1>14 DEF GoDown, ComeBack, Explained
<1>15. CASE UNCHANGED vars
  BY <1>0, <1>15 DEF vars, Explained
<1> QED
  BY <1>1, <1>2, <1>3, <1>4, <1>5, <1>6, <1>7, <1>8, <1>9, <1>10, <1>11,
     <1>12, <1>13, <1>14, <1>15
     DEF Next, RoundStep, SuspendFails, CheckFails, Restart, transfers
\* The part about admissions: the request's own evaluation allowed it, and
\* later ones keep the requester.
LEMMA AdmissionNext ==
  ASSUME TypeOK, PolicyInv, [Next]_vars PROVE AdmissionInv'
<1> DEFINE Admitted(t) == state[t] # "none" \/ handler[t].pc = "save"
           Fine(t) == /\ monitor[t] # Absent
                      /\ AllowedOnce(t, monitor[t].context.values.credential,
                                        monitor[t].context.outsider)
<1> USE DEF transfers
<1>0. /\ \A t \in Transfer : Admitted(t) => Fine(t)
      /\ UnderWayInv /\ RequestsInv /\ ExplainedInv
      /\ now \in Nat /\ now' \in Nat
  <2>1. now \in Nat
    BY PolicyAssumption DEF TypeOK, Time
  <2>2. now' \in Nat
    BY <2>1, TypeNext, PolicyAssumption DEF TypeOK, Time
  <2> QED
    BY <2>1, <2>2 DEF PolicyInv, AdmissionInv
<1>a. ASSUME NEW t \in Transfer, Fine(t), monitor'[t] # Absent, now <= now',
             Requester(monitor'[t]) = Requester(monitor[t])
      PROVE  Fine(t)'
  <2>1. /\ monitor'[t].context.values.credential
             = monitor[t].context.values.credential
        /\ monitor'[t].context.outsider = monitor[t].context.outsider
    BY <1>a DEF Requester
  <2> QED
    BY <1>0, <1>a, <2>1, AllowedStays DEF AllowedOnce
<1>b. now <= now'
  <2>1. now' = now \/ now' = now + 1
    BY DEF Next, RoundStep, Request, RecordRequest, SaveTransfer, Move,
           HalfMove, Moves, EvaluateDataPlane, RecordDataPlane, BeginRound,
           CheckTransfer, CheckFails, RecordCheck, Suspend, TellPeer,
           SaveSuspended, SuspendFails, Forget, Tick, GoDown, ComeBack,
           Restart, vars
  <2> QED
    BY <1>0, <2>1
<1>c. ASSUME NEW t \in Transfer, Admitted(t)' => Admitted(t),
             monitor'[t] = monitor[t]
      PROVE  Admitted(t)' => Fine(t)'
  BY <1>0, <1>a, <1>b, <1>c
<1>d. SUFFICES ASSUME NEW t \in Transfer PROVE Admitted(t)' => Fine(t)'
  BY DEF AdmissionInv
<1>1. ASSUME NEW u \in Transfer, Request(u) PROVE Admitted(t)' => Fine(t)'
  <2>1. handler'[t] = handler[t] \/ handler'[t].pc # "save"
    <3>1. CASE handler' = [handler EXCEPT ![u] = Over]
      BY <3>1 DEF Over, TypeOK
    <3>2. CASE handler' # [handler EXCEPT ![u] = Over]
      <4>1. PICK row \in Row :
              handler' = [handler EXCEPT ![u] = [pc |-> "record", row |-> row]]
        BY <1>1, <3>2, RequestEvaluates
      <4> QED
        BY <4>1 DEF TypeOK
    <3> QED
      BY <3>1, <3>2
  <2> QED
    BY <1>1, <1>c, <2>1 DEF Request
<1>2. ASSUME NEW u \in Transfer, RecordRequest(u)
      PROVE  Admitted(t)' => Fine(t)'
  <2>1. CASE u # t
    BY <1>2, <1>c, <2>1 DEF RecordRequest, TypeOK
  <2>2. CASE u = t /\ handler[t].row.decision = "DENY"
    BY <1>0, <1>2, <2>2 DEF RecordRequest, TypeOK, Over, RequestsInv,
                            NothingYet
  <2>3. CASE u = t /\ handler[t].row.decision # "DENY"
    <3>1. /\ handler[t].pc = "record" /\ monitor'[t] = handler[t].row
          /\ now' = now
      BY <1>2, <2>3 DEF RecordRequest, TypeOK
    <3>2. handler[t].row \in Row /\ Explained(t, handler[t].row)
      BY <1>0, <3>1 DEF RequestsInv, ExplainedInv
    <3>3. PICK s \in 0..now :
            handler[t].row.context =
              RequestContext(handler[t].row.context.values.credential,
                             handler[t].row.context.outsider, s)
      BY <1>0, <3>1 DEF RequestsInv
    <3>4. Allowed(Templates, agreement[t], handler[t].row.context)
      BY <2>3, <3>2 DEF Explained, Allowed
    <3>5. AllowedOnce(t, handler[t].row.context.values.credential,
                         handler[t].row.context.outsider)
      BY <3>3, <3>4 DEF AllowedOnce
    <3>6. monitor'[t] # Absent
      BY <3>1, <3>2, RowsArePresent
    <3> QED
      BY <3>1, <3>5, <3>6 DEF AllowedOnce
  <2> QED
    BY <2>1, <2>2, <2>3
<1>3. ASSUME NEW u \in Transfer, SaveTransfer(u)
      PROVE  Admitted(t)' => Fine(t)'
  BY <1>3, <1>c DEF SaveTransfer, TypeOK, Over
<1>4. ASSUME NEW u \in Transfer, NEW s \in State, Move(u, s) \/ HalfMove(u, s)
      PROVE  Admitted(t)' => Fine(t)'
  <2>1. /\ UNCHANGED <<monitor, handler>>
        /\ state[t] = "none" <=> state'[t] = "none"
    BY <1>4, MoveKeeps
  <2> QED
    BY <1>c, <2>1
<1>5. ASSUME NEW u \in Transfer, EvaluateDataPlane(u)
      PROVE  Admitted(t)' => Fine(t)'
  BY <1>5, <1>c DEF EvaluateDataPlane
<1>6. CASE RecordDataPlane
  <2>1. AboutRow(asked.at, asked.row)
    BY <1>0, <1>6 DEF RecordDataPlane, UnderWayInv
  <2>2. monitor' = [monitor EXCEPT ![asked.at] = asked.row]
        /\ UNCHANGED <<state, handler>>
    BY <1>6 DEF RecordDataPlane
  <2>3. CASE t = asked.at
    <3>1. monitor'[t] # Absent /\ Requester(monitor'[t]) = Requester(monitor[t])
      BY <2>1, <2>2, <2>3, RowsArePresent DEF AboutRow, TypeOK
    <3> QED
      BY <1>0, <1>a, <1>b, <2>2, <3>1
  <2>4. CASE t # asked.at
    BY <1>c, <2>2, <2>4 DEF TypeOK
  <2> QED
    BY <2>3, <2>4
<1>7. CASE BeginRound
  BY <1>7, <1>c DEF BeginRound
<1>8. ASSUME NEW u \in Transfer, CheckTransfer(u)
      PROVE  Admitted(t)' => Fine(t)'
  BY <1>8, <1>c DEF CheckTransfer
<1>9. CASE RecordCheck
  <2>1. AboutRow(round.at, round.row)
    BY <1>0, <1>9 DEF RecordCheck, UnderWayInv
  <2>2. monitor' = [monitor EXCEPT ![round.at] = round.row]
        /\ UNCHANGED <<state, handler>>
    BY <1>9 DEF RecordCheck
  <2>3. CASE t = round.at
    <3>1. monitor'[t] # Absent /\ Requester(monitor'[t]) = Requester(monitor[t])
      BY <2>1, <2>2, <2>3, RowsArePresent DEF AboutRow, TypeOK
    <3> QED
      BY <1>0, <1>a, <1>b, <2>2, <3>1
  <2>4. CASE t # round.at
    BY <1>c, <2>2, <2>4 DEF TypeOK
  <2> QED
    BY <2>3, <2>4
<1>10. CASE Suspend \/ TellPeer
  BY <1>10, <1>c DEF Suspend, TellPeer
<1>11. CASE SaveSuspended
  <2>1. state[round.at] # "none" /\ round.at \in Transfer
    BY <1>0, <1>11 DEF SaveSuspended, UnderWayInv, PolicyInv, SuspendInv
  <2> QED
    BY <1>11, <1>c, <2>1 DEF SaveSuspended, TypeOK
<1>12. CASE Forget /\ UNCHANGED <<monitor, state, now>>
  BY <1>12, <1>c DEF Forget, Idle, Over
<1>13. CASE Tick
  BY <1>13, <1>c DEF Tick
<1>14. ASSUME NEW u \in Transfer, GoDown(u) \/ ComeBack(u)
       PROVE  Admitted(t)' => Fine(t)'
  BY <1>14, <1>c DEF GoDown, ComeBack
<1>15. CASE UNCHANGED vars
  BY <1>15, <1>c DEF vars
<1> HIDE DEF Admitted, Fine
<1> QED
  BY <1>1, <1>2, <1>3, <1>4, <1>5, <1>6, <1>7, <1>8, <1>9, <1>10, <1>11,
     <1>12, <1>13, <1>14, <1>15
     DEF Next, RoundStep, SuspendFails, CheckFails, Restart, transfers

LEMMA PolicyInvNext == TypeOK /\ PolicyInv /\ [Next]_vars => PolicyInv'
  BY RequestsNext, UnderWayNext, ExplainedNext, AdmissionNext DEF PolicyInv

LEMMA PolicyInvariant == Spec => [](TypeOK /\ PolicyInv)
  BY TypeInit, TypeNext, PolicyInit, PolicyInvNext, PTL DEF Spec

\* The decision kept with a context is the one its agreement gives reasons for,
\* whichever evaluation was saved last.
THEOREM PolicyDecisions == Spec => []DecisionsExplained
<1>1. PolicyInv => DecisionsExplained
  BY DEF PolicyInv, ExplainedInv, Explained, DecisionsExplained
<1> QED
  BY <1>1, PolicyInvariant, PTL

\* A transfer was allowed when it was admitted.
THEOREM PolicyAdmission == Spec => []AdmittedOnce
<1>1. PolicyInv => AdmittedOnce
  BY DEF PolicyInv, AdmissionInv, AllowedOnce, AdmittedOnce
<1> QED
  BY <1>1, PolicyInvariant, PTL

\* No transfer lacks the row the interval needs to check it.
THEOREM PolicyMonitoring == Spec => []TransfersAreMonitored
<1>1. PolicyInv => TransfersAreMonitored
  BY DEF PolicyInv, AdmissionInv, TransfersAreMonitored
<1> QED
  BY <1>1, PolicyInvariant, PTL
=============================================================================
