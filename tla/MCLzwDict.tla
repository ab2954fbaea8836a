----------------------------- MODULE MCLzwDict -----------------------------
(* Seven keys of three one-bit fields that fall into two buckets.  Any two *)
(* fields are shared by some pair of keys, so that bits set for one slot   *)
(* and for another may meet in a key that was never stored.                *)
EXTENDS LzwDict

MCIndex == {0, 1}
MCKey   == (MCIndex \X MCIndex \X MCIndex) \ {<<1, 1, 0>>}
MCHash  == [k \in MCKey |-> k[3]]
MCField == [m \in Memory |->
              [k \in MCKey |-> CASE m = "upper" -> k[1]
                                 [] m = "middle" -> k[2]
                                 [] m = "lower" -> k[3]]]
=============================================================================
