--------------------------- MODULE MCStreamConsumer ---------------------------
(* Instances of StreamConsumer for TLC. *)
EXTENDS StreamConsumer, TLC

\* An entry with rows and an empty snapshot.
DecodedPair == <<"rows", "none">>

\* The first entry decodes, but ClickHouse refuses its row; the second is fine.
DecodedPoison == <<"refused", "rows">>

\* As before, with enough good entries around it to fill a buffer.
DecodedFive == <<"rows", "refused", "malformed", "rows", "rows">>

Replicas == Permutations(Consumers)
===============================================================================
