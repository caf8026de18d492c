--------------------------- MODULE PolicyEvaluation ---------------------------
(***************************************************************************)
(* The decision a control plane takes about a transfer under an agreement: *)
(* Evaluation in policy/evaluation.ts and the template lookup of           *)
(* policy/rule.repository.service.ts.  The operators are pure; the module  *)
(* PolicyMonitor calls them.                                               *)
(*                                                                         *)
(* A context gives every path a sequence of values.  A rule keeps its      *)
(* constraints and duties as sets, because only the presence of a result   *)
(* matters, and one flag for "target, action, assigner and assignee are    *)
(* those of the context".  An evaluation may throw: its result is then     *)
(* "THROWS", and nothing is decided.                                       *)
(***************************************************************************)
EXTENDS Integers, Sequences

Trigger  == {"ON_REQUEST", "CONTINUOUS", "ON_EXECUTION"}
Decision == {"ALLOW", "DENY"}

----------------------------------------------------------------------------
(* One constraint.                                                          *)

Verdict(met) == IF met THEN "VALID" ELSE "INVALID"

\* EQ, NEQ and the comparisons are met by a single value only.
One(elements, met) == Verdict(Len(elements) = 1 /\ met)

Occurs(right, elements) == \E i \in DOMAIN elements : elements[i] = right

\* evaluateString, and the part evaluateNumber has in common with it.
EvaluateString(operator, right, elements) ==
  CASE operator = "EQ"         -> One(elements, elements[1] = right)
    [] operator = "NEQ"        -> One(elements, elements[1] # right)
    [] operator = "IS_ALL_OF"  ->
         Verdict(/\ Len(elements) > 0
                 /\ \A i \in DOMAIN elements : elements[i] = right)
    [] operator = "IS_ANY_OF"  -> Verdict(Occurs(right, elements))
    [] operator = "IS_NONE_OF" -> Verdict(~Occurs(right, elements))
    [] OTHER                   -> "INDECISIVE"

EvaluateNumber(operator, right, elements) ==
  CASE operator = "GTEQ" -> One(elements, elements[1] >= right)
    [] operator = "GT"   -> One(elements, elements[1] > right)
    [] operator = "LT"   -> One(elements, elements[1] < right)
    [] operator = "LTEQ" -> One(elements, elements[1] <= right)
    [] OTHER             -> EvaluateString(operator, right, elements)

\* A right operand that is not JSON, and a value that is no credential.
Unparsable == 0

\* A credential satisfies a descriptor or not: here it is the descriptor's
\* value or another one.  The descriptor is parsed first, and the values are
\* looked at until one satisfies it.
EvaluateInputDescriptor(operator, right, elements) ==
  LET fails == \E i \in DOMAIN elements :
                 /\ elements[i] = Unparsable
                 /\ \A j \in 1..(i - 1) : elements[j] # right
  IN IF right = Unparsable \/ (operator = "IS_ANY_OF" /\ fails) THEN "THROWS"
     ELSE IF operator = "IS_ANY_OF" THEN Verdict(Occurs(right, elements))
     ELSE "INDECISIVE"

\* The template of an operand tells where to find it, its type and when it can
\* be evaluated.  One that names an operator is for that operator alone.
HasTemplate(templates, c) ==
  /\ c.left \in DOMAIN templates
  /\ templates[c.left].operator \in {"none", c.operator}

EvaluateAs(type, c, elements) ==
  CASE type = "STRING" -> EvaluateString(c.operator, c.right, elements)
    [] type = "NUMBER" -> EvaluateNumber(c.operator, c.right, elements)
    [] OTHER           -> EvaluateInputDescriptor(c.operator, c.right, elements)

\* A template that names no operator is not valid, and is found out when it is
\* looked up.
EvaluateConstraint(templates, c, context) ==
  IF ~HasTemplate(templates, c) THEN "INVALID"
  ELSE LET template == templates[c.left]
       IN IF template.operator = "none" THEN "THROWS"
          ELSE IF context.scope \notin template.evaluable THEN "NOT_APPLICABLE"
          ELSE EvaluateAs(template.type, c, context.values[template.path])

----------------------------------------------------------------------------
(* Rules and the decision.                                                  *)

\* mapResults, of results that are all there: what throws is not mapped.
MapResults(results) ==
  IF results = {} THEN "VALID"
  ELSE IF "THROWS" \in results THEN "THROWS"
  ELSE IF "INVALID" \in results THEN "INVALID"
  ELSE IF "VALID" \in results THEN "VALID"
  ELSE IF "INDECISIVE" \in results THEN "INDECISIVE" ELSE "NOT_APPLICABLE"

EvaluateConstraints(templates, constraints, context) ==
  MapResults({EvaluateConstraint(templates, c, context) : c \in constraints})

\* A duty and a prohibition are their constraints.
EvaluateRule(templates, rule, context) ==
  IF rule.fits THEN EvaluateConstraints(templates, rule.constraint, context)
  ELSE "NOT_APPLICABLE"

DutyResults(templates, rule, context) ==
  {EvaluateRule(templates, d, context) : d \in rule.duty}

\* A permission adds the result of its duties, if it has any.
EvaluatePermission(templates, rule, context) ==
  IF ~rule.fits THEN "NOT_APPLICABLE"
  ELSE MapResults(
         {EvaluateConstraints(templates, rule.constraint, context)}
         \cup (IF rule.duty = {} THEN {}
               ELSE {MapResults(DutyResults(templates, rule, context))}))

EvaluatePermissions(templates, agreement, context) ==
  {EvaluatePermission(templates, r, context) : r \in agreement.permission}

EvaluateRules(templates, rules, context) ==
  {EvaluateRule(templates, r, context) : r \in rules}

\* The rules are all evaluated before any result is looked at.
Throws(templates, agreement, context) ==
  \/ "THROWS" \in EvaluatePermissions(templates, agreement, context)
  \/ "THROWS" \in EvaluateRules(templates, agreement.prohibition, context)
  \/ "THROWS" \in EvaluateRules(templates, agreement.obligation, context)

Prohibited(templates, agreement, context) ==
  \E result \in EvaluateRules(templates, agreement.prohibition, context) :
    result \in {"VALID", "INDECISIVE"}

\* Mutant: the result of a permission in doubt is answered as it is.
EvaluateUnmapped(templates, agreement, context) ==
  IF context.outsider THEN "DENY"
  ELSE IF Throws(templates, agreement, context) THEN "THROWS"
  ELSE IF Prohibited(templates, agreement, context) THEN "DENY"
  ELSE IF "VALID" \in EvaluatePermissions(templates, agreement, context)
  THEN "ALLOW"
  ELSE IF "INDECISIVE" \in EvaluatePermissions(templates, agreement, context)
  THEN "INDECISIVE" ELSE "ALLOW"

\* Mutant: a permission that cannot be decided does not deny.
EvaluateDoubtless(templates, agreement, context) ==
  IF context.outsider THEN "DENY"
  ELSE IF Throws(templates, agreement, context) THEN "THROWS"
  ELSE IF Prohibited(templates, agreement, context) THEN "DENY"
  ELSE "ALLOW"

\* evaluate: the agreement's parties and target first, then the results of its
\* prohibitions, then of its permissions.  An agreement of which no permission
\* is valid or in doubt allows.
Evaluate(templates, agreement, context) ==
  LET permissions == EvaluatePermissions(templates, agreement, context)
  IN IF context.outsider THEN "DENY"
     ELSE IF Throws(templates, agreement, context) THEN "THROWS"
     ELSE IF Prohibited(templates, agreement, context) THEN "DENY"
     ELSE IF "VALID" \in permissions THEN "ALLOW"
     ELSE IF "INDECISIVE" \in permissions THEN "DENY" ELSE "ALLOW"

\* An agreement whose rules and duties fit a context or not.
Shaped(agreement) ==
  /\ \A r \in agreement.permission \cup agreement.prohibition :
       r.fits \in BOOLEAN /\ \A d \in r.duty : d.fits \in BOOLEAN
  /\ \A r \in agreement.obligation : r.fits \in BOOLEAN

----------------------------------------------------------------------------
(* What a decision should mean, said of the single constraints.             *)

Refuted(templates, c, context) ==
  EvaluateConstraint(templates, c, context) = "INVALID"
Met(templates, c, context) ==
  EvaluateConstraint(templates, c, context) = "VALID"
Undecided(templates, c, context) ==
  EvaluateConstraint(templates, c, context) = "INDECISIVE"
Broken(templates, c, context) ==
  EvaluateConstraint(templates, c, context) = "THROWS"

\* A prohibition is in force when nothing refutes it and something in it, or
\* the lack of any condition, makes it apply.
InForce(templates, r, context) ==
  /\ r.fits
  /\ \A c \in r.constraint : ~Refuted(templates, c, context)
  /\ \/ r.constraint = {}
     \/ \E c \in r.constraint : \/ Met(templates, c, context)
                                \/ Undecided(templates, c, context)

FittingDuties(r) == {d \in r.duty : d.fits}
Conditions(r) == r.constraint \cup UNION {d.constraint : d \in FittingDuties(r)}

NotRefuted(templates, r, context) ==
  /\ r.fits
  /\ \A c \in Conditions(r) : ~Refuted(templates, c, context)

\* A permission grants when no condition of its own or of its duties is refuted
\* and one is met, or it or a duty has none to meet.
Grants(templates, r, context) ==
  /\ NotRefuted(templates, r, context)
  /\ \/ r.constraint = {}
     \/ \E d \in FittingDuties(r) : d.constraint = {}
     \/ \E c \in Conditions(r) : Met(templates, c, context)

\* A permission is doubtful when it does not grant and no condition is refuted,
\* but one cannot be decided.
Doubtful(templates, r, context) ==
  /\ NotRefuted(templates, r, context)
  /\ ~Grants(templates, r, context)
  /\ \E c \in Conditions(r) : Undecided(templates, c, context)

\* The reasons to deny.
Forbidden(templates, agreement, context) ==
  \/ context.outsider
  \/ \E r \in agreement.prohibition : InForce(templates, r, context)
  \/ /\ \A r \in agreement.permission : ~Grants(templates, r, context)
     /\ \E r \in agreement.permission : Doubtful(templates, r, context)

\* Nothing can be said when a condition of a rule is broken, be it one that would
\* not have mattered; an outsider is denied before.
Faulty(templates, agreement, context) ==
  /\ ~context.outsider
  /\ \/ \E r \in agreement.permission :
          r.fits /\ \E c \in Conditions(r) : Broken(templates, c, context)
     \/ \E r \in agreement.prohibition \cup agreement.obligation :
          r.fits /\ \E c \in r.constraint : Broken(templates, c, context)

Allowed(templates, agreement, context) ==
  /\ ~Forbidden(templates, agreement, context)
  /\ ~Faulty(templates, agreement, context)
=============================================================================
