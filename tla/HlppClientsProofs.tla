-------------------------- MODULE HlppClientsProofs --------------------------
(***************************************************************************)
(* What a MemoryStorage handle promises its clients, for any number of     *)
(* clients, keys, names and values.                                        *)
(***************************************************************************)
EXTENDS HlppClients, TLAPS

Mode == Overrides = TRUE

\* get_tmp does not touch the store; the other calls are the store's own.
LEMMA InitClients == ASSUME NoneIsNotAValue PROVE Init => ClientsInv
  BY ValuesCount DEF Init, ClientsInv, TypeOK, MemTypeOK, KeptSurvives, Answer,
                     Calls, Outs, Present

LEMMA StepClients ==
  ASSUME NoneIsNotAValue, ClientsInv, [Next]_vars
  PROVE  ClientsInv'
<1> USE DEF ClientsInv, TypeOK, MemTypeOK, KeptSurvives, Present, Answer, Calls,
            Outs, memVars
<1>1. ASSUME NEW k \in Key, ClientPut(k)
      PROVE  ClientsInv'
  BY <1>1, NoneIsNotAValue, ValuesCount DEF ClientPut, Put
<1>2. ASSUME NEW k \in Key, ClientDelete(k)
      PROVE  ClientsInv'
  BY <1>2 DEF ClientDelete, Delete
<1>3. ASSUME NEW k \in Key, ClientPin(k)
      PROVE  ClientsInv'
  BY <1>3 DEF ClientPin, HandlePin, Pin
<1>4. ASSUME NEW k \in Key, ClientUnpin(k)
      PROVE  ClientsInv'
  BY <1>4 DEF ClientUnpin, HandleUnpin, Unpin
<1>5. CASE Collect
  BY <1>5 DEF Collect, Gc, Garbage
<1>6. ASSUME NEW n \in Name, NEW v \in Value, ClientPutTmp(n, v)
      PROVE  ClientsInv'
  BY <1>6 DEF ClientPutTmp, HandlePutTmp, PutTmp
<1>7. ASSUME NEW c \in Client, NEW n \in Name, ClientGetTmp(c, n)
      PROVE  ClientsInv'
  BY <1>7 DEF ClientGetTmp, HandleGetTmp
<1>8. ASSUME NEW c \in Client, NEW n \in Name, ClientCas(c, n)
      PROVE  ClientsInv'
  <2> DEFINE old == Believed(c, n)
  <2>1. old \in Value /\ old + 1 \in Value
    BY <1>8, ValuesCount DEF ClientCas, Believed
  <2>2. CASE Overrides /\ CasResult(n, old) = "swapped"
    <3>1. temporal[n] = old
      BY <2>2 DEF CasResult
    <3>2. /\ temporal' = [temporal EXCEPT ![n] = old + 1]
          /\ expected' = [expected EXCEPT ![n] = expected[n] + 1]
          /\ UNCHANGED <<data, pinned, seen, promised, kept>>
          /\ answer' = Answer("cas_tmp", "true")
      BY <1>8, <2>2 DEF ClientCas, HandleCasTmp, HandleCasOut, CasTmp
    <3> HIDE DEF old
    <3>3. expected[n] + 1 = old + 1
      BY <3>1, <2>2
    <3> QED
      BY <3>2, <3>3, <2>1, <2>2
  <2>3. CASE ~(Overrides /\ CasResult(n, old) = "swapped")
    BY <1>8, <2>3 DEF ClientCas, HandleCasTmp, HandleCasOut, CasTmp
  <2> QED BY <2>2, <2>3
<1>9. CASE UNCHANGED vars
  BY <1>9 DEF vars
<1> QED
  BY <1>1, <1>2, <1>3, <1>4, <1>5, <1>6, <1>7, <1>8, <1>9 DEF Next

\* The store does what its clients were told, in every reachable state.
THEOREM ClientsInvHolds == Spec => []ClientsInv
<1>1. Init => ClientsInv
  BY InitClients, NoneIsNotAValue
<1>2. ClientsInv /\ [Next]_vars => ClientsInv'
  BY StepClients, NoneIsNotAValue
<1> QED
  BY <1>1, <1>2, PTL DEF Spec

\* A promised key that was stored is never collected: whatever the order in
\* which any number of clients pin, store and collect.
THEOREM PinProtects == ASSUME Mode PROVE Spec => []KeptSurvives
<1>1. ClientsInv => KeptSurvives
  BY DEF ClientsInv, Mode
<1> QED
  BY <1>1, ClientsInvHolds, PTL

\* Compare-and-swap loses no increment.
THEOREM CasLosesNothing == ASSUME Mode PROVE Spec => NoLostUpdate
<1>1. ASSUME ClientsInv, NEW c \in Client, NEW n \in Name, ClientGetTmp(c, n)
      PROVE  seen'[c][n] = expected[n]
  BY <1>1 DEF ClientsInv, TypeOK, Mode, ClientGetTmp, HandleGetTmp
<1>2. ClientsInv /\ [Next]_vars =>
        [ \A c \in Client, n \in Name :
            ClientGetTmp(c, n) => seen'[c][n] = expected[n] ]_vars
  BY <1>1
<1> QED
  BY <1>2, ClientsInvHolds, PTL DEF Spec, NoLostUpdate

=============================================================================
