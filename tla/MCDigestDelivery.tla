--------------------------- MODULE MCDigestDelivery ---------------------------
(* Small instances of DigestDelivery for TLC. *)
EXTENDS DigestDelivery, TLC

CONSTANTS d1, d2

(* Due on one date for as long as the clock runs.                           *)
OneSchedule == {[t \in 0 .. MaxClock |-> d1]}

(* Two time zones: a digest is due at once, the local day ends, and the      *)
(* next one begins; in the east all of it is earlier.                        *)
West == [t \in 0 .. MaxClock |-> IF t < 2 THEN d1 ELSE IF t = 2 THEN Null ELSE d2]
East == [t \in 0 .. MaxClock |-> IF t < 1 THEN d1 ELSE IF t = 1 THEN Null ELSE d2]
TwoDays == {West, East}

JobSymmetry == Permutations(Jobs)

==============================================================================
