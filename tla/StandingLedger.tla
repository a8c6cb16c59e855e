--------------------------- MODULE StandingLedger ---------------------------
(***************************************************************************)
(* What the admission machinery promises of the standing ref (the headers  *)
(* of admission/settlement.ts and admission/service.ts): standing is a      *)
(* chain of admission claims.  A claim is evidence first - it is written,   *)
(* naming the claim it expects to find standing - and gains authority only  *)
(* by one compare-and-swap, which links it to exactly that claim.  Nothing  *)
(* is ever unlinked, relinked or linked twice; evidence may stay unattached.*)
(***************************************************************************)
EXTENDS Naturals, Sequences

CONSTANTS
  Claims,   \* claim ids
  NoClaim   \* nothing stands

VARIABLES
  chain,    \* the claims that stand, oldest first
  written,  \* claims handed to the claim store
  names     \* the claim each claim expects to find standing

ledgervars == <<chain, written, names>>

Standing == IF chain = <<>> THEN NoClaim ELSE chain[Len(chain)]

LedgerInit ==
  /\ chain = <<>>
  /\ written = {}
  /\ names = [c \in Claims |-> NoClaim]

\* A claim is drafted against what stands now.
Draft(c) ==
  /\ c \notin written
  /\ names' = [names EXCEPT ![c] = Standing]
  /\ UNCHANGED <<chain, written>>

Write(c) ==
  /\ c \notin written
  /\ written' = written \union {c}
  /\ UNCHANGED <<chain, names>>

\* The compare-and-swap.
Attach(c) ==
  /\ c \in written
  /\ names[c] = Standing
  /\ \A i \in 1..Len(chain) : chain[i] # c
  /\ chain' = Append(chain, c)
  /\ UNCHANGED <<written, names>>

LedgerNext == \E c \in Claims : Draft(c) \/ Write(c) \/ Attach(c)

LedgerSpec == LedgerInit /\ [][LedgerNext]_ledgervars
=============================================================================
