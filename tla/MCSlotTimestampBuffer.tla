----------------------- MODULE MCSlotTimestampBuffer -----------------------
(***************************************************************************)
(* Model-checking instance of SlotTimestampBuffer.  The next-state relation *)
(* is the buffer's, with what the server's messages may name and the       *)
(* number of facts it tells (MaxFacts) bounded.                            *)
(***************************************************************************)
EXTENDS SlotTimestampBuffer, FiniteSetsExt, TLC

CONSTANT MaxFacts   \* bound on the facts the stream tells in one behaviour

VARIABLE server     \* the slots, banks and instants this server's messages name

\* A server that names every bank: two banks of three slots.
Naming ==
    {[slots |-> Slots, banks |-> BankIds, times |-> {t}] : t \in Times}

\* A server that leaves some messages without one: two slots, two instants.
Unnaming ==
    {[slots |-> {1, 2}, banks |-> {b, Unknown}, times |-> Times] : b \in BankIds}

\* How many facts the stream has told.
FactsTold ==
    MapThenSumSet(LAMBDA s : Len(told[s].times) + (IF told[s].kept = None THEN 0 ELSE 1),
                  DOMAIN told)

MCNext ==
    /\ \E slot \in server.slots, bank \in server.banks :
          \/ OnPayload(slot, bank)
          \/ /\ FactsTold < MaxFacts
             /\ \/ \E at \in server.times : OnBlockTime(slot, bank, at)
                \/ OnSlotUnresolvable(slot, bank)
                \/ OnFinalized(slot, bank)
    /\ UNCHANGED server

\* The named banks, and the instants, are interchangeable.
BanksAndTimes == Permutations(BankIds) \cup Permutations(Times)

MCInit == BufferInit /\ server \in Naming \cup Unnaming

MCSpec == MCInit /\ [][MCNext]_<<bufferVars, server>>
=============================================================================
