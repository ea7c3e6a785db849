----------------------------- MODULE MCModemInit -----------------------------
EXTENDS ModemInit

CONSTANTS home, second, unlisted

\* One code with a case in linkStatusCB and one without.
TwoErrors == {-7, -8}

\* A card whose first APN is accepted, one for which only the second is, and
\* one of a network that is not in the table.  The first two have the same
\* first digits.
Cards == {home, second, unlisted}
Digits == [c \in Cards |-> IF c = second THEN home ELSE c]
Entries == [c \in Cards |-> IF c = unlisted THEN 0 ELSE 2]
Accepted == [c \in Cards |-> IF c = home THEN {0}
                             ELSE IF c = second THEN {1} ELSE {}]
=============================================================================
