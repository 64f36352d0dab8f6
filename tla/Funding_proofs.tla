--------------------------- MODULE Funding_proofs ---------------------------
(***************************************************************************)
(* Proofs about Funding, for every set of calls, contracts and gas values, *)
(* every default and every bound.                                          *)
(***************************************************************************)
EXTENDS Funding, SequenceTheorems, TLAPS

Fee == {n \in Nat : n >= Default}
HasFrom == {"from", "reset", "kept", "logs"}
Chains == Seq([Addresses -> Gas])

(* What a call knows, given the cache: the maximum it has read or written   *)
(* is a fee, and the one in redis unless another has written since; the     *)
(* blocks before the one it starts from were searched; and the height it    *)
(* was told is one the chain has reached.                                   *)
Knows(state) ==
    /\ state.max \in {0} \cup Fee
    /\ state.pc \in {"kept", "logs"} => state.max \in Fee
    /\ state.pc \in Calculating /\ ~state.stale => state.max = maxFee
    /\ state.pc \in HasFrom => \A b \in 1..(state.from - 1) : Searched(b)
    /\ state.latest <= Len(chain)

CallsKnow == \A c \in Calls : Knows(call[c])

(* The inductive invariant: redis is right because every call that will     *)
(* write to it knows enough.                                                *)
FundingInv == FundingTypeOK /\ CallsKnow /\ NoBlockSkipped /\ GasRemembered

-----------------------------------------------------------------------------
(* The local state of a call.                                               *)

LEMMA FeeIsNat == Fee \subseteq Nat /\ {0} \cup Fee = {0} \cup {n \in Nat : n >= Default}
BY DEF Fee

LEMMA GasOfType ==
    ASSUME chain \in Chains, NEW l \in (1..Len(chain)) \X Addresses
    PROVE  GasOf(l) \in Nat
<1>. PICK b \in 1..Len(chain), a \in Addresses : l = <<b, a>>
  OBVIOUS
<1>1. chain[b] \in [Addresses -> Gas]
  BY ElementOfSeq DEF Chains
<1>2. chain[b][a] \in Gas
  BY <1>1
<1>. QED
  BY <1>2, FundingAssumption DEF GasOf

LEMMA AtType ==
    ASSUME NEW kind \in {"fund", "execute"}, NEW label \in Waiting \cup Over
    PROVE  At(label, kind) \in CallState
<1>1. (CHOOSE a \in Addresses : TRUE) \in Addresses
  BY FundingAssumption
<1>. QED
  BY <1>1 DEF At, CallState

\* A call that does not calculate knows all it needs.
LEMMA AtKnows ==
    ASSUME chain \in Chains, NEW kind, NEW label, label \notin Calculating
    PROVE  Knows(At(label, kind))
<1>1. Len(chain) \in Nat
  BY LenProperties DEF Chains
<1>. QED
  BY <1>1 DEF Knows, At, Calculating, HasFrom

LEMMA EndedOK ==
    ASSUME chain \in Chains, NEW label \in Over
    PROVE  Ended(label) \in CallState /\ Knows(Ended(label))
BY AtType, AtKnows DEF Ended, Over, Calculating

LEMMA FeeKnownOK ==
    ASSUME chain \in Chains, NEW c
    PROVE  FeeKnown(c) \in CallState /\ Knows(FeeKnown(c))
BY AtType, AtKnows, EndedOK DEF FeeKnown, Over, Waiting, Calculating

-----------------------------------------------------------------------------
(* Steps that only change what one call is at.                              *)

LEMMA FailsType == ASSUME faults \in 0..MaxFaults, Fails PROVE faults' \in 0..MaxFaults
BY FundingAssumption DEF Fails

LEMMA KnowsKept ==
    ASSUME NEW state, Knows(state), UNCHANGED <<maxFee, chain, scanned>>
    PROVE  /\ state.max \in {0} \cup Fee
           /\ state.pc \in {"kept", "logs"} => state.max \in Fee
           /\ state.pc \in Calculating /\ ~state.stale => state.max = maxFee'
           /\ state.pc \in HasFrom =>
                  \A b \in 1..(state.from - 1) : \E a \in Addresses : <<b, a>> \in scanned'
           /\ state.latest <= Len(chain')
BY DEF Knows, Searched

LEMMA Going ==
    ASSUME FundingInv, NEW c \in Calls, NEW state \in CallState, Knows(state),
           Goto(c, state), UNCHANGED <<cache, chain>>,
           UNCHANGED faults \/ Fails
    PROVE  FundingInv'
<1>1. \A d \in Calls : call'[d] = IF d = c THEN state ELSE call[d]
  BY DEF FundingInv, FundingTypeOK, Goto
<1>2. call' \in [Calls -> CallState]
  BY DEF FundingInv, FundingTypeOK, Goto
<1>3. FundingTypeOK'
  BY <1>2, FailsType DEF FundingInv, FundingTypeOK, cache
<1>4. CallsKnow'
  <2>1. ASSUME NEW d \in Calls PROVE Knows(call'[d])
    BY <1>1 DEF FundingInv, CallsKnow
  <2>. QED
    BY <2>1 DEF CallsKnow, Knows, Searched, cache
<1>5. NoBlockSkipped' /\ GasRemembered'
  BY DEF FundingInv, NoBlockSkipped, Searched, GasRemembered, GasOf, cache
<1>. QED
  BY <1>3, <1>4, <1>5 DEF FundingInv

\* The chain grows, and what is known of its blocks stays true.
LEMMA Mining == ASSUME FundingInv, Block PROVE FundingInv'
<1>. PICK b \in [Addresses -> Gas] : chain' = Append(chain, b)
  BY DEF Block
<1>1. /\ chain' \in Chains /\ Len(chain') = Len(chain) + 1 /\ Len(chain) \in Nat
      /\ \A n \in 1..Len(chain) : chain'[n] = chain[n]
  BY AppendProperties, LenProperties DEF FundingInv, FundingTypeOK, Chains
<1>2. FundingTypeOK'
  BY <1>1 DEF FundingInv, FundingTypeOK, Block, cache, Chains
<1>3. CallsKnow'
  <2>1. ASSUME NEW c \in Calls
        PROVE  call[c].latest <= Len(chain')
    BY <1>1 DEF FundingInv, FundingTypeOK, CallState, CallsKnow, Knows
  <2>. QED
    BY <2>1 DEF FundingInv, CallsKnow, Knows, Searched, Block, cache
<1>4. NoBlockSkipped'
  BY DEF FundingInv, NoBlockSkipped, Searched, Block, cache
<1>5. GasRemembered'
  <2>1. ASSUME NEW l \in scanned PROVE chain'[l[1]][l[2]] = chain[l[1]][l[2]]
    <3>1. l[1] \in 1..Len(chain)
      BY DEF FundingInv, FundingTypeOK
    <3>. QED
      BY <1>1, <3>1
  <2>. QED
    BY <2>1 DEF FundingInv, GasRemembered, GasOf, Block, cache
<1>. QED
  BY <1>2, <1>3, <1>4, <1>5 DEF FundingInv

LEMMA Exiting == ASSUME FundingInv, Exit PROVE FundingInv'
<1>1. chain \in Chains
  BY DEF FundingInv, FundingTypeOK, Chains
<1>2. Ended("settled") \in CallState /\ Knows(Ended("settled"))
  BY <1>1, EndedOK DEF Over
<1>3. FundingTypeOK'
  BY <1>2, FailsType DEF FundingInv, FundingTypeOK, Exit, cache
<1>4. CallsKnow'
  <2>1. ASSUME NEW c \in Calls PROVE Knows(call'[c])
    BY <1>2 DEF Exit
  <2>. QED
    BY <2>1 DEF CallsKnow, Knows, Searched, Exit, cache
<1>5. NoBlockSkipped' /\ GasRemembered'
  BY DEF FundingInv, NoBlockSkipped, Searched, GasRemembered, GasOf, Exit, cache
<1>. QED
  BY <1>3, <1>4, <1>5 DEF FundingInv

-----------------------------------------------------------------------------
(* Writing a maximum.                                                       *)

LEMMA Writing ==
    ASSUME FundingInv, NEW c \in Calls, NEW m \in Fee, NEW state \in CallState,
           m >= call[c].max, Write(c, m, state),
           UNCHANGED <<chain, faults>>,
           scanned \subseteq scanned',
           scanned' \subseteq (1..Len(chain)) \X Addresses,
           \A l \in scanned' : l \in scanned \/ GasOf(l) <= m,
           lastBlock' \in 0..Len(chain), NoBlockSkipped',
           state.max \in {0} \cup Fee,
           state.pc \in {"kept", "logs"} => state.max \in Fee,
           state.pc \in Calculating => state.max = m,
           state.pc \in HasFrom => state.from = call[c].from /\ call[c].pc \in HasFrom,
           state.latest <= Len(chain), call[c].pc \in Calculating
    PROVE  FundingInv'
<1>0. m \in Nat /\ maxFee \in Nat /\ maxFee' = m
  BY DEF FundingInv, FundingTypeOK, Write, Fee
<1>1. /\ call' \in [Calls -> CallState]
      /\ call'[c] = state
      /\ \A d \in Calls \ {c} :
            call'[d] = [call[d] EXCEPT !.stale =
                           call[d].stale \/ (call[d].pc \in Calculating /\ m # maxFee)]
  BY DEF FundingInv, FundingTypeOK, Write, CallState
<1>2. raced' \in BOOLEAN
  BY DEF Write, FundingInv, FundingTypeOK
<1>3. FundingTypeOK'
  BY <1>0, <1>1, <1>2 DEF FundingInv, FundingTypeOK, Fee
<1>4. \A b : Searched(b) => \E a \in Addresses : <<b, a>> \in scanned'
  BY DEF Searched
<1>5. CallsKnow'
  <2>1. ASSUME NEW d \in Calls PROVE Knows(call[d])'
    <3>1. CASE d = c
      <4>1. state.pc \in HasFrom => \A b \in 1..(state.from - 1) : Searched(b)'
        BY <1>4 DEF FundingInv, CallsKnow, Knows, Searched
      <4>. QED
        BY <1>0, <1>1, <3>1, <4>1 DEF Knows
    <3>2. CASE d # c
      <4>1. /\ call'[d].pc = call[d].pc /\ call'[d].max = call[d].max
            /\ call'[d].from = call[d].from /\ call'[d].latest = call[d].latest
            /\ call'[d].stale = (call[d].stale \/ (call[d].pc \in Calculating
                                                   /\ m # maxFee))
        BY <1>1, <3>2 DEF FundingInv, FundingTypeOK, CallState
      <4>2. Knows(call[d])
        BY DEF FundingInv, CallsKnow
      <4>3. call[d].pc \in HasFrom => \A b \in 1..(call[d].from - 1) : Searched(b)'
        BY <1>4, <4>2 DEF Knows, Searched
      <4>. QED
        BY <1>0, <4>1, <4>2, <4>3 DEF Knows
    <3>. QED
      BY <3>1, <3>2
  <2>. QED
    BY <2>1 DEF CallsKnow
<1>6. GasRemembered'
  <2>. SUFFICES ASSUME ~raced', NEW l \in scanned' PROVE GasOf(l) <= m
    BY <1>0 DEF GasRemembered, GasOf
  <2>1. ~raced /\ m >= maxFee
    <3>1. ~(raced \/ (call[c].stale /\ m < maxFee))
      BY DEF Write
    <3>2. ~call[c].stale => call[c].max = maxFee
      BY DEF FundingInv, CallsKnow, Knows
    <3>. QED
      BY <1>0, <3>1, <3>2
  <2>2. CASE l \in scanned
    <3>1. GasOf(l) \in Nat
      BY <2>2, GasOfType DEF FundingInv, FundingTypeOK, Chains
    <3>2. GasOf(l) <= maxFee
      BY <2>1, <2>2 DEF FundingInv, GasRemembered
    <3>. QED
      BY <1>0, <2>1, <3>1, <3>2
  <2>. QED
    BY <2>2
<1>. QED
  BY <1>3, <1>5, <1>6 DEF FundingInv

LEMMA Keeping ==
    ASSUME FundingInv, NEW c \in Calls, KeepMax(c) PROVE FundingInv'
<1>. DEFINE m == IF call[c].max = 0 THEN Default ELSE call[c].max
            state == [call[c] EXCEPT !.pc = "kept", !.max = m]
<1>0. call[c] \in CallState /\ Knows(call[c])
  BY DEF FundingInv, FundingTypeOK, CallsKnow
<1>1. m \in Fee /\ m >= call[c].max
  BY <1>0, FundingAssumption DEF Knows, Fee
<1>2. /\ state \in CallState /\ state.pc = "kept" /\ state.max = m
      /\ state.from = call[c].from /\ state.latest = call[c].latest
  BY <1>0, <1>1 DEF CallState, Waiting, Fee
<1>3. Write(c, m, state)
  BY DEF KeepMax
<1>4. call[c].pc \in HasFrom /\ call[c].pc \in Calculating
  BY DEF KeepMax, HasFrom, Calculating
<1>5. state.latest <= Len(chain)
  BY <1>0, <1>2 DEF Knows
<1>6. UNCHANGED <<lastBlock, scanned, chain, faults>>
  BY DEF KeepMax
<1>7. NoBlockSkipped' /\ lastBlock' \in 0..Len(chain)
      /\ scanned' \subseteq (1..Len(chain)) \X Addresses
  BY <1>6 DEF FundingInv, FundingTypeOK, NoBlockSkipped, Searched
<1>. HIDE DEF m, state
<1>. QED
  BY <1>1, <1>2, <1>3, <1>4, <1>5, <1>6, <1>7, Writing

\* The search goes on from where the blocks have been searched to.
LEMMA Searching ==
    ASSUME FundingInv, NEW c \in Calls, call[c].pc = "logs",
           lastBlock' = call[c].latest, scanned' = scanned \cup Logs(c)
    PROVE  /\ NoBlockSkipped'
           /\ lastBlock' \in 0..Len(chain)
           /\ Logs(c) \subseteq (1..Len(chain)) \X Addresses
<1>1. call[c] \in CallState /\ Knows(call[c])
  BY DEF FundingInv, FundingTypeOK, CallsKnow
<1>2. Len(chain) \in Nat
  BY LenProperties DEF FundingInv, FundingTypeOK
<1>3. /\ call[c].latest \in 0..Len(chain) /\ call[c].from \in Nat
      /\ call[c].at \in Addresses
  BY <1>1, <1>2 DEF CallState, Knows
<1>4. ASSUME NEW b \in 1..call[c].latest PROVE Searched(b)'
  <2>1. CASE b >= call[c].from
    <3>1. <<b, call[c].at>> \in Logs(c)
      BY <2>1 DEF Logs
    <3>. QED
      BY <1>3, <3>1 DEF Searched
  <2>2. CASE b < call[c].from
    <3>1. b \in 1..(call[c].from - 1)
      BY <1>3, <2>2
    <3>2. Searched(b)
      BY <1>1, <3>1 DEF Knows, HasFrom
    <3>. QED
      BY <3>2 DEF Searched
  <2>. QED
    BY <1>3, <2>1, <2>2
<1>5. Logs(c) \subseteq (1..Len(chain)) \X Addresses
  BY <1>2, <1>3 DEF Logs
<1>. QED
  BY <1>3, <1>4, <1>5 DEF NoBlockSkipped

LEMMA Recording ==
    ASSUME FundingInv, NEW c \in Calls, Record(c) PROVE FundingInv'
<1>0. call[c] \in CallState /\ Knows(call[c]) /\ chain \in Chains
  BY DEF FundingInv, FundingTypeOK, CallsKnow, Chains
<1>1. PICK m \in {call[c].max} \cup Gas : Largest(m, c) /\ Write(c, m, FeeKnown(c))
  BY DEF Record
<1>2. call[c].pc = "logs" /\ call[c].max \in Fee
  BY <1>0 DEF Record, Knows
<1>3. m \in Fee /\ m >= call[c].max
  <2>1. m >= call[c].max
    BY <1>1 DEF Largest
  <2>2. m \in Nat /\ call[c].max \in Nat /\ call[c].max >= Default /\ Default \in Nat
    BY <1>2, FundingAssumption DEF Fee
  <2>. QED
    BY <2>1, <2>2 DEF Fee
<1>4. /\ FeeKnown(c) \in CallState /\ Knows(FeeKnown(c))
      /\ FeeKnown(c).pc \notin Calculating
  BY <1>0, FeeKnownOK DEF FeeKnown, Ended, At, Calculating
<1>5. FeeKnown(c).pc \notin HasFrom /\ FeeKnown(c).pc \notin {"kept", "logs"}
  BY <1>4 DEF Calculating, HasFrom
<1>6. /\ NoBlockSkipped' /\ lastBlock' \in 0..Len(chain)
      /\ scanned' \subseteq (1..Len(chain)) \X Addresses
  BY <1>2, Searching DEF Record, FundingInv, FundingTypeOK
<1>7. \A l \in scanned' : l \in scanned \/ GasOf(l) <= m
  <2>1. ASSUME NEW l \in Logs(c) PROVE GasOf(l) <= m
    <3>1. l \in (1..Len(chain)) \X Addresses
      BY <1>2, Searching DEF Record
    <3>2. GasOf(l) \in Nat
      BY <1>0, <3>1, GasOfType
    <3>. QED
      BY <1>1, <1>3, <3>2 DEF Largest, Fee
  <2>. QED
    BY <2>1 DEF Record
<1>8. scanned \subseteq scanned' /\ UNCHANGED <<chain, faults>>
  BY DEF Record
<1>9. /\ FeeKnown(c).max \in {0} \cup Fee /\ FeeKnown(c).latest <= Len(chain)
      /\ call[c].pc \in Calculating
  BY <1>2, <1>4 DEF Knows, Calculating
<1>. QED
  BY <1>1, <1>3, <1>4, <1>5, <1>6, <1>7, <1>8, <1>9, Writing

-----------------------------------------------------------------------------
(* The steps of a call, one by one.                                         *)

LEMMA Starting ==
    ASSUME FundingInv, NEW c \in Calls, Start(c) \/ Estimate(c) PROVE FundingInv'
<1>1. chain \in Chains
  BY DEF FundingInv, FundingTypeOK, Chains
<1>2. ASSUME NEW kind \in {"fund", "execute"}, NEW label \in {"estimate", "key", "begin"}
      PROVE  At(label, kind) \in CallState /\ Knows(At(label, kind))
  BY <1>1, AtType, AtKnows DEF Waiting, Calculating
<1>3. Ended("settled") \in CallState /\ Knows(Ended("settled"))
  BY <1>1, EndedOK DEF Over
<1>. QED
  BY <1>2, <1>3, Going DEF Start, Estimate

LEMMA Unlocking == ASSUME FundingInv, NEW c \in Calls, Key(c) PROVE FundingInv'
<1>1. chain \in Chains
  BY DEF FundingInv, FundingTypeOK, Chains
<1>2. At("begin", "execute") \in CallState /\ Knows(At("begin", "execute"))
  BY <1>1, AtType, AtKnows DEF Waiting, Calculating
<1>3. Ended("settled") \in CallState /\ Knows(Ended("settled"))
  BY <1>1, EndedOK DEF Over
<1>4. PICK state \in {At("begin", "execute"), Ended("settled")} :
          Goto(c, state) /\ (UNCHANGED faults \/ Fails)
  BY DEF Key
<1>. QED
  BY <1>2, <1>3, <1>4, Going DEF Key

LEMMA Reading ==
    ASSUME FundingInv, NEW c \in Calls,
           ReadMax(c) \/ ReadLastBlock(c) \/ ReadHeight(c)
    PROVE  FundingInv'
<1>0. call[c] \in CallState /\ Knows(call[c]) /\ maxFee \in {0} \cup Fee
      /\ maxFee \in Nat
  BY DEF FundingInv, FundingTypeOK, CallsKnow, Fee
<1>1. /\ lastBlock \in Nat /\ Len(chain) \in Nat
      /\ \A b \in 1..(lastBlock - 1) : Searched(b)
  BY LenProperties DEF FundingInv, FundingTypeOK, NoBlockSkipped
<1>2. CASE ReadMax(c)
  <2>. PICK a \in Addresses :
           Goto(c, [call[c] EXCEPT !.pc = "max", !.at = a, !.max = maxFee])
    BY <1>2 DEF ReadMax
  <2>. DEFINE state == [call[c] EXCEPT !.pc = "max", !.at = a, !.max = maxFee]
  <2>1. state \in CallState
    BY <1>0 DEF CallState, Waiting
  <2>2. Knows(state)
    BY <1>0 DEF Knows, CallState, HasFrom
  <2>. QED
    BY <1>2, <2>1, <2>2, Going DEF ReadMax
<1>3. CASE ReadLastBlock(c)
  <2>. DEFINE state == [call[c] EXCEPT !.pc = "from", !.from = lastBlock]
  <2>1. state \in CallState
    BY <1>0, <1>1 DEF CallState, Waiting
  <2>2. Knows(state)
    BY <1>0, <1>1, <1>3 DEF ReadLastBlock, Knows, CallState, Calculating
  <2>. QED
    BY <1>3, <2>1, <2>2, Going DEF ReadLastBlock
<1>4. CASE ReadHeight(c)
  <2>. DEFINE state == [call[c] EXCEPT !.pc = "logs", !.latest = Len(chain)]
  <2>1. state \in CallState
    BY <1>0, <1>1 DEF CallState, Waiting
  <2>2. Knows(state)
    BY <1>0, <1>1, <1>4 DEF ReadHeight, Knows, CallState, Calculating, HasFrom
  <2>. QED
    BY <1>4, <2>1, <2>2, Going DEF ReadHeight
<1>. QED
  BY <1>2, <1>3, <1>4

LEMMA Resetting ==
    ASSUME FundingInv, NEW c \in Calls, ResetLastBlock(c) PROVE FundingInv'
<1>. DEFINE state == [call[c] EXCEPT !.pc = "reset"]
<1>0. call[c] \in CallState /\ Knows(call[c]) /\ Len(chain) \in Nat
  BY LenProperties DEF FundingInv, FundingTypeOK, CallsKnow
<1>1. state \in CallState
  BY <1>0 DEF CallState, Waiting
<1>2. Knows(state)
  BY <1>0 DEF ResetLastBlock, Knows, CallState, Calculating, HasFrom
<1>3. \A d \in Calls : call'[d] = IF d = c THEN state ELSE call[d]
  BY DEF FundingInv, FundingTypeOK, ResetLastBlock, Goto
<1>4. FundingTypeOK'
  BY <1>0, <1>1 DEF FundingInv, FundingTypeOK, ResetLastBlock, Goto
<1>5. CallsKnow'
  <2>1. ASSUME NEW d \in Calls PROVE Knows(call'[d])
    BY <1>2, <1>3 DEF FundingInv, CallsKnow
  <2>. QED
    BY <2>1 DEF CallsKnow, Knows, Searched, ResetLastBlock
<1>6. NoBlockSkipped' /\ GasRemembered'
  BY DEF FundingInv, NoBlockSkipped, GasRemembered, GasOf, ResetLastBlock
<1>. QED
  BY <1>4, <1>5, <1>6 DEF FundingInv

LEMMA Failing ==
    ASSUME FundingInv, NEW c \in Calls, LogsFail(c) \/ Hang(c) PROVE FundingInv'
<1>1. chain \in Chains
  BY DEF FundingInv, FundingTypeOK, Chains
<1>2. Ended("hung") \in CallState /\ Knows(Ended("hung"))
  BY <1>1, EndedOK DEF Over
<1>3. FeeKnown(c) \in CallState /\ Knows(FeeKnown(c))
  BY <1>1, FeeKnownOK
<1>. QED
  BY <1>2, <1>3, Going DEF LogsFail, Hang

LEMMA StepInv == FundingInv /\ [FundingNext]_fundingVars => FundingInv'
<1>. SUFFICES ASSUME FundingInv, [FundingNext]_fundingVars PROVE FundingInv'
  OBVIOUS
<1>1. ASSUME NEW c \in Calls, Start(c) \/ Proceed(c) \/ Hang(c) PROVE FundingInv'
  BY <1>1, Starting, Unlocking, Reading, Resetting, Keeping, Recording, Failing
     DEF Proceed, Calculate
<1>2. CASE UNCHANGED fundingVars
  BY <1>2 DEF fundingVars, FundingInv, FundingTypeOK, CallsKnow, Knows, Searched,
              NoBlockSkipped, GasRemembered, GasOf
<1>. QED
  BY <1>1, <1>2, Mining, Exiting DEF FundingNext

LEMMA InitInv == FundingInit => FundingInv
<1>. SUFFICES ASSUME FundingInit PROVE FundingInv
  OBVIOUS
<1>1. chain \in Chains /\ Len(chain) = 1
  <2>1. chain \in [1..1 -> [Addresses -> Gas]] /\ 1 \in Nat
    BY DEF FundingInit
  <2>2. chain \in Chains
    BY <2>1, SeqDef DEF Chains
  <2>3. 1..Len(chain) = 1..1 /\ Len(chain) \in Nat
    BY <2>1, <2>2, LenProperties DEF Chains
  <2>4. ASSUME NEW n \in Nat, 1..n = 1..1 PROVE n = 1
    <3>1. 1 \in 1..n
      BY <2>4
    <3>2. n \in 1..n
      BY <3>1
    <3>3. n \in 1..1
      BY <2>4, <3>2
    <3>. QED
      BY <3>3
  <2>. QED
    BY <2>2, <2>3, <2>4
<1>2. Ended("settled") \in CallState /\ Knows(Ended("settled"))
  BY <1>1, EndedOK DEF Over
<1>3. FundingTypeOK
  <2>1. lastBlock \in 0..Len(chain) /\ faults \in 0..MaxFaults /\ maxFee \in {0}
    BY <1>1, FundingAssumption DEF FundingInit
  <2>2. scanned \subseteq (1..Len(chain)) \X Addresses /\ raced \in BOOLEAN
    BY DEF FundingInit
  <2>3. call \in [Calls -> CallState]
    BY <1>2 DEF FundingInit
  <2>. QED
    BY <1>1, <2>1, <2>2, <2>3 DEF FundingTypeOK, Chains
<1>4. CallsKnow
  BY <1>2 DEF FundingInit, CallsKnow
<1>5. NoBlockSkipped /\ GasRemembered
  BY DEF FundingInit, NoBlockSkipped, GasRemembered
<1>. QED
  BY <1>3, <1>4, <1>5 DEF FundingInv

(* The types: redis never holds less than the default, or a block that does *)
(* not exist, however the calls overlap and fail (FundingController.ts:     *)
(* 124-170).                                                                *)
THEOREM FundingTypes == FundingSafety => []FundingTypeOK
<1>1. FundingInv => FundingTypeOK
  BY DEF FundingInv
<1>. QED
  BY <1>1, InitInv, StepInv, PTL DEF FundingSafety

(* No block is skipped, for any number of calls, contracts and blocks: a    *)
(* call knows that the blocks before the one it starts from were searched,  *)
(* and it writes the height only with the logs (FundingController.ts:160).  *)
THEOREM FundingSkipsNoBlock == FundingSafety => []NoBlockSkipped
<1>1. FundingInv => NoBlockSkipped
  BY DEF FundingInv
<1>. QED
  BY <1>1, InitInv, StepInv, PTL DEF FundingSafety

(* The largest gas recorded is not forgotten unless a stale maximum was     *)
(* written over a larger one: a call whose maximum is not stale has the one *)
(* in redis, and never writes a smaller (FundingController.ts:139 and :161).*)
THEOREM FundingRemembersGas == FundingSafety => []GasRemembered
<1>1. FundingInv => GasRemembered
  BY DEF FundingInv
<1>. QED
  BY <1>1, InitInv, StepInv, PTL DEF FundingSafety
=============================================================================
