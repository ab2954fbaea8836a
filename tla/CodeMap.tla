------------------------------ MODULE CodeMap ------------------------------
(***************************************************************************)
(* What the LZW dictionary of Server/lzw.cpp promises its caller, the      *)
(* compression loop: a map from keys to codes in which a key, once it has  *)
(* a code, keeps it; a key that misses is given the next code; and the map *)
(* may refuse a key only when it already holds Capacity of them.           *)
(***************************************************************************)
EXTENDS Integers

CONSTANTS Key,        \* the keys a caller may probe
          FirstCode,  \* the first code given out: the codes below it are bytes
          CodeSpace,  \* codes are stored modulo CodeSpace
          Capacity,   \* the map refuses no key while it holds fewer
          Miss        \* the answer to a probe of an unknown key

VARIABLES codes,      \* the known keys, each with its code
          next_code,  \* the code the next new key gets
          answer,     \* what the last probe answered
          refused     \* TRUE once a key has been refused

vars == <<codes, next_code, answer, refused>>

Init == /\ codes = [k \in {} |-> Miss]
        /\ next_code = FirstCode
        /\ answer = Miss
        /\ refused = FALSE

\* A known key is answered with its code.
Recall(k) == /\ k \in DOMAIN codes
             /\ answer' = codes[k]
             /\ UNCHANGED <<codes, next_code, refused>>

\* An unknown key is given the next code; no other key changes.
Learn(k) == /\ k \notin DOMAIN codes
            /\ codes' = [x \in DOMAIN codes \cup {k} |->
                           IF x = k THEN next_code % CodeSpace ELSE codes[x]]
            /\ next_code' = next_code + 1
            /\ answer' = Miss
            /\ UNCHANGED refused

\* An unknown key is refused: the caller stops probing.
Refuse(k) == /\ k \notin DOMAIN codes
             /\ next_code - FirstCode >= Capacity
             /\ refused' = TRUE
             /\ answer' = Miss
             /\ UNCHANGED <<codes, next_code>>

Next == /\ ~ refused
        /\ \E k \in Key : Recall(k) \/ Learn(k) \/ Refuse(k)

Spec == Init /\ [][Next]_vars
=============================================================================
