---------------------------- MODULE MCProcessor -----------------------------
(* Rules of both transports on one subject and on an overlapping one, a     *)
(* wildcard path and a schedule; one message that reaches all the subjects. *)
EXTENDS Processor, TLC

CONSTANTS j1, j2, c1, h1, s1, msg, req, tick

Rule(kind, at, core, throttle, action, keyed) ==
  [kind |-> kind, at |-> at, core |-> core, method |-> "", throttle |-> throttle,
   action |-> action, keyed |-> keyed]

Path(segments) == [segments |-> segments, slash |-> FALSE]

MCDef ==
  (j1 :> Rule("nats", <<"a", "b">>, FALSE, FALSE, "trailing", FALSE)) @@
  (j2 :> Rule("nats", <<"a", ">">>, FALSE, TRUE, "plain", FALSE)) @@
  (c1 :> Rule("nats", <<"a", "b">>, TRUE, FALSE, "leading", FALSE)) @@
  (h1 :> [Rule("http", Path(<<"x", "*">>), FALSE, TRUE, "plain", TRUE) EXCEPT !.method = "POST"]) @@
  (s1 :> Rule("schedule", <<>>, FALSE, FALSE, "leading", FALSE))

MCIn ==
  (msg :> [kind |-> "nats", at |-> <<"a", "b">>, key |-> "a.b"]) @@
  (req :> [kind |-> "http", at |-> Path(<<"x", "y">>), key |-> "/x/y", method |-> "POST"]) @@
  (tick :> [kind |-> "schedule", at |-> <<>>, key |-> ""])

Symmetry == Permutations(Workers)

MCFileRules == <<j1, j2, c1, h1, s1>>
=============================================================================
