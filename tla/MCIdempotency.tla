---------------------------- MODULE MCIdempotency ----------------------------
(* Small instances of Idempotency for TLC: three requests with one key, two *)
(* of them the same operation, and one request with a key of its own.       *)
EXTENDS Idempotency

CONSTANTS r1, r2, r3, r4, k1, k2, b1, b2

MCRequest == {r1, r2, r3, r4}
MCKeyOf == [r \in MCRequest |-> IF r = r4 THEN k2 ELSE k1]
MCBodyOf == [r \in MCRequest |-> IF r = r3 THEN b2 ELSE b1]
==============================================================================
