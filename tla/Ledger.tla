------------------------------ MODULE Ledger -------------------------------
(***************************************************************************)
(* What the gateway-ui server promises of the calls it admits: one that    *)
(* can be logged is open until rows settle it, unless the process ends     *)
(* first; one that cannot never gets a row; no row is ever taken back.     *)
(***************************************************************************)
EXTENDS Naturals

CONSTANT Calls

VARIABLES
  open,  \* the calls admitted and not answered that can be logged
  dark,  \* and those that cannot
  rows   \* the rows written

LedgerInit == open = {} /\ dark = {} /\ rows = 0

Free(c) == c \notin open \cup dark

Admit(c) ==
  /\ Free(c)
  /\ \/ open' = open \cup {c} /\ dark' = dark
     \/ dark' = dark \cup {c} /\ open' = open
  /\ rows' = rows

\* The second row is the apology for an answer that could not be sent.
Settle(c) ==
  /\ c \in open
  /\ open' = open \ {c}
  /\ rows' \in rows + 1 .. rows + 2
  /\ dark' = dark

Vanish(c) == c \in dark /\ dark' = dark \ {c} /\ UNCHANGED <<open, rows>>

\* A call answered at once still leaves its row.
Reject(c) == Free(c) /\ rows' = rows + 1 /\ UNCHANGED <<open, dark>>

Crash == open' = {} /\ dark' = {} /\ rows' = rows

LedgerNext ==
  \/ \E c \in Calls : Admit(c) \/ Settle(c) \/ Vanish(c) \/ Reject(c)
  \/ Crash

LedgerSpec == LedgerInit /\ [][LedgerNext]_<<open, dark, rows>>
=============================================================================
