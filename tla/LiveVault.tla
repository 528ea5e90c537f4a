----------------------------- MODULE LiveVault ------------------------------
(***************************************************************************)
(* The vault on chain as the scripts that only read it see it: a block at  *)
(* a time.  A figure a script has read is the block it was read at: what   *)
(* the vault holds at a block follows from the log up to it.               *)
(***************************************************************************)
EXTENDS Integers, Sequences, FiniteSets, Functions

CONSTANTS
    MaxBlock,      \* bound: blocks that change the vault
    MaxFailures    \* bound: reads, sends and processes that fail

VARIABLES
    log,           \* what each block did to the vault
    failures       \* what has failed so far

Null == -1          \* no figure
Configured == -2    \* a constant of the script in a figure's place

\* A deposit and a withdrawal move the assets with an event, a harvest or a
\* credited yield without one; the owner moves the caps or the pause.
Kinds == {"deposit", "withdraw", "yield", "admin"}

Block == Len(log)

Count(kinds, b) == Cardinality({i \in 1..b : log[i] \in kinds})

\* totalAssets() at a block, and the owner's settings at it (there and back).
Assets(b) == Count({"deposit", "yield"}, b) - Count({"withdraw"}, b)
Admin(b) == Count({"admin"}, b) % 2

Flows == {i \in 1..Block : log[i] \in {"deposit", "withdraw"}}

Mine(kind) ==
    /\ Block < MaxBlock
    /\ kind = "withdraw" => Assets(Block) > 0
    /\ log' = Append(log, kind)
    /\ UNCHANGED failures

LiveInit == log = <<>> /\ failures = 0

Answers(ok) ==
    /\ UNCHANGED log
    /\ IF ok THEN UNCHANGED failures
             ELSE failures < MaxFailures /\ failures' = failures + 1

\* A row of the log is never rewritten: the chain does not reorganise.
LiveTypeOK == log \in Seq(Kinds) /\ Block <= MaxBlock /\ failures \in 0..MaxFailures
=============================================================================
