--------------------------- MODULE MCPolicyMonitor ---------------------------
(* A small instance of PolicyMonitor for TLC: two transfers under two kinds  *)
(* of agreement.                                                              *)
EXTENDS PolicyInduction, TLC

CONSTANTS t1, t2

MCCredentials == {<<2>>, <<1, 2>>}
MCPurposes    == {<<>>, <<0>>}

OnRequest == {"ON_REQUEST", "CONTINUOUS"}

Template(path, operator, type, evaluable) ==
  [path |-> path, operator |-> operator, type |-> type, evaluable |-> evaluable]

\* Three operands count only while the transfer runs.
MCTemplates ==
  [holds |->
     Template("credential", "IS_ANY_OF", "DIF_INPUT_DESCRIPTOR", OnRequest),
   holdsAll |->
     Template("credential", "IS_ALL_OF", "DIF_INPUT_DESCRIPTOR", OnRequest),
   purpose |-> Template("purpose", "EQ", "STRING", OnRequest),
   shows |->
     Template("purpose", "IS_ANY_OF", "DIF_INPUT_DESCRIPTOR", {"CONTINUOUS"}),
   until |-> Template("time", "GTEQ", "NUMBER", {"CONTINUOUS"}),
   origin |-> Template("credential", "GT", "STRING", {"CONTINUOUS"}),
   evaluationTime |-> Template("time", "none", "NUMBER", OnRequest)]

Is(left, operator, right) ==
  [left |-> left, operator |-> operator, right |-> right]

Rule(constraint) == [fits |-> TRUE, constraint |-> constraint, duty |-> {}]

\* Anyone may use the data until time 1, though no permission is for this action.
\* The other prohibitions never apply, for want of a template or because they are
\* about another action.  While it runs, an obligation looks at what the data
\* plane told, which need not be a credential.
Expiring ==
  [permission  |-> {[Rule({}) EXCEPT !.fits = FALSE]},
   prohibition |-> {Rule({Is("until", "GTEQ", 1)}),
                    Rule({Is("until", "EQ", 0)}),
                    [Rule({Is("evaluationTime", "LT", 1)}) EXCEPT !.fits = FALSE]},
   obligation  |-> {Rule({Is("shows", "IS_ANY_OF", 1)})}]

\* Holders of credential 1 may use it, with a duty that cannot be decided; a
\* permission that cannot be decided lets nobody else in.  It must not be used for
\* purpose 0, nor while it runs if its origin is in doubt, which it always is.
ForPurpose ==
  [permission  |-> {[Rule({Is("holds", "IS_ANY_OF", 1)}) EXCEPT
                       !.duty = {Rule({Is("holdsAll", "IS_ALL_OF", 1)})}],
                    Rule({Is("holdsAll", "IS_ALL_OF", 1)})},
   prohibition |-> {Rule({Is("purpose", "EQ", 0)}),
                    Rule({Is("origin", "GT", 2)})},
   obligation  |-> {}]

MCAgreement == (t1 :> Expiring) @@ (t2 :> ForPurpose)
=============================================================================
