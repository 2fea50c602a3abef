----------------------------- MODULE MCPipeline -----------------------------
(* Values of Pipeline's constants for TLC. *)
EXTENDS Pipeline, TLC

CONSTANTS p1, q1

MCLine(product, quantity) == [product |-> product, query |-> q1, quantity |-> quantity]
MCReading(lines, missing, match) == [lines |-> lines, missing |-> missing, match |-> match]

(* The same order with its quantity and without, the latter on a claim     *)
(* beyond 1, another order, and an invented product beside a line without  *)
(* one.                                                                    *)
MCExtractions ==
  {MCReading(<<MCLine(p1, 1)>>, 0, 100),
   MCReading(<<MCLine(p1, NoQuantity)>>, 0, 150),
   MCReading(<<MCLine(p1, 2)>>, 0, 100),
   MCReading(<<MCLine(Invented, 1), MCLine(NoProduct, 1)>>, 0, 90)}

MCProviders == {[name |-> "groq", key |-> "valid"], [name |-> "gemini", key |-> "invalid"]}

(* One message with canned answers; two with a provider that answers; and, *)
(* for what is older than the drafts that a look-up takes, a third after   *)
(* two confirmed contexts, without automatic approval.                     *)
Begun == {m \in Messages : handler[m].pc # "idle"}
MCBound ==
  /\ Mocked => Cardinality(Begun) < 2
  /\ Cardinality(Begun) > 2 =>
       /\ ~settings.enabled /\ edits = 0
       /\ Cardinality({i \in 1..Len(draft) : draft[i].kind = "confirmed"}) > 1

MCSymmetry == Permutations(Messages)
=============================================================================
