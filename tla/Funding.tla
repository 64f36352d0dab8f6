------------------------------ MODULE Funding ------------------------------
(***************************************************************************)
(* What a transaction of the merchant needs before it can be sent          *)
(* (src/core/blockchain/FundingController.ts): a private key from the key  *)
(* database (src/utils/datasource/DataServiceEncrypted.ts) and a gas       *)
(* limit from calculateMaxExecutionFee, which keeps two values in redis:   *)
(* the most gas an execution ever used, and the last block whose logs were *)
(* searched.  Calls of fundETH ("fund") and executePullPayment ("execute") *)
(* do this concurrently, and an await lies between any two operations.     *)
(*                                                                         *)
(* All calls share one redis connection, which answers in order: a redis   *)
(* operation takes effect with the step that issues it.  A key database    *)
(* that cannot be reached ends the process (DataServiceEncrypted.ts:23)    *)
(* and every call in it; redis keeps what was written.                     *)
(***************************************************************************)
EXTENDS Naturals, Sequences

CONSTANTS Calls,       \* calls that can be in progress
          Addresses,   \* pull payment contracts, which share the two values
          Gas,         \* gas an execution may use, 0 for none
          Default,     \* Globals.GET_MAX_GAS_FEE()
          MaxHeight,   \* bound: blocks
          MaxFaults    \* bound: operations that fail

ASSUME FundingAssumption == /\ Gas \subseteq Nat
                            /\ Addresses # {}
                            /\ Default \in Nat \ {0}
                            /\ MaxHeight \in Nat /\ MaxFaults \in Nat

VARIABLES maxFee,      \* redis: k_max_gas_fee, 0 when it is not set
          lastBlock,   \* redis: k_last_block, 0 when it is not set
          chain,       \* per block and contract, the gas of its execution
          call,        \* what each call is at, and its local variables
          faults,      \* operations that failed so far
          scanned,     \* history: the <<block, contract>> whose gas was recorded
          raced        \* history: a stale maximum was written over a larger one

cache == <<maxFee, lastBlock, scanned, raced>>
fundingVars == <<maxFee, lastBlock, chain, call, faults, scanned, raced>>

\* "stale" is history: maxFee has changed since the call read it.
Waiting == {"estimate", "key", "begin", "max", "from", "reset", "kept", "logs"}
Calculating == {"max", "from", "reset", "kept", "logs"}
Over == {"settled", "hung"}
CallState == [kind: {"fund", "execute"}, pc: Waiting \cup Over, at: Addresses,
              max: Nat, from: Nat, latest: Nat, stale: BOOLEAN]

\* A call that calculates no fee, or not yet, or no more.
At(label, kind) == [kind |-> kind, pc |-> label, at |-> CHOOSE a \in Addresses : TRUE,
                    max |-> 0, from |-> 0, latest |-> 0, stale |-> FALSE]
Ended(label) == At(label, "fund")
Goto(c, state) == call' = [call EXCEPT ![c] = state]
Fails == faults < MaxFaults /\ faults' = faults + 1

FundingInit ==
    /\ maxFee = 0 /\ lastBlock = 0
    /\ chain \in [1..1 -> [Addresses -> Gas]]
    /\ call = [c \in Calls |-> Ended("settled")]
    /\ faults = 0 /\ scanned = {} /\ raced = FALSE

\* A block is mined: external.
Block == /\ Len(chain) < MaxHeight
         /\ \E b \in [Addresses -> Gas] : chain' = Append(chain, b)
         /\ UNCHANGED <<cache, call, faults>>

-----------------------------------------------------------------------------
(* A call begins: executePullPayment first asks for the private key,        *)
(* fundETH for the currency rate and the gas of a token transfer.           *)
Start(c) ==
    /\ call[c].pc \in Over
    /\ \/ Goto(c, At("estimate", "fund"))
       \/ Goto(c, At("key", "execute"))
    /\ UNCHANGED <<cache, chain, faults>>

(* The rate and the estimate arrive.  request() returns an error instead of *)
(* throwing it; the amount is then NaN, which toWei refuses: either failure *)
(* rejects fundETH.                                                         *)
Estimate(c) == /\ call[c].pc = "estimate"
               /\ \/ Goto(c, At("begin", "fund")) /\ UNCHANGED faults
                  \/ Goto(c, Ended("settled")) /\ Fails
               /\ UNCHANGED <<cache, chain>>

(* What executeQueryAsPromise resolves to, by the result of the query: an   *)
(* error, a packet that says how many rows were affected, rows, or those of *)
(* a stored procedure.  Reading the first of no rows throws inside the try, *)
(* and the handler of a failing query resolves, too.                        *)
Answer(result) ==
    CASE result.is = "error" -> [status |-> 400, rows |-> 0]
      [] result.is = "packet" ->
            [status |-> IF result.n = 0 THEN 204 ELSE 201, rows |-> 0]
      [] result.is = "rows" ->
            [status |-> IF result.n = 0 THEN 204 ELSE 200, rows |-> result.n]
      [] result.is = "call" ->
            [status |-> IF result.n = 0 THEN 400 ELSE 200, rows |-> result.n]

\* getPrivateKey calls a stored procedure, which finds the address or does not.
KeyResults == {[is |-> "error", n |-> 0], [is |-> "call", n |-> 0],
               [is |-> "call", n |-> 1]}

(* The key arrives; without a row the caller's data[0] throws.              *)
Key(c) ==
    /\ call[c].pc = "key"
    /\ \E result \in KeyResults :
          IF Answer(result).rows > 0
          THEN /\ Goto(c, IF call[c].kind = "fund" THEN Ended("settled")
                                                   ELSE At("begin", "execute"))
               /\ UNCHANGED faults
          ELSE Goto(c, Ended("settled")) /\ Fails
    /\ UNCHANGED <<cache, chain>>

\* getConnection fails: process.exit(-1), whatever the other calls are at.
Exit == /\ \E c \in Calls : call[c].pc = "key"
        /\ Fails
        /\ call' = [c \in Calls |-> Ended("settled")]
        /\ UNCHANGED <<cache, chain>>

-----------------------------------------------------------------------------
\* calculateMaxExecutionFee for some contract: the first redis key is read ...
ReadMax(c) ==
    /\ call[c].pc = "begin"
    /\ \E a \in Addresses :
          Goto(c, [call[c] EXCEPT !.pc = "max", !.at = a, !.max = maxFee])
    /\ UNCHANGED <<cache, chain, faults>>

\* ... then the second.
ReadLastBlock(c) ==
    /\ call[c].pc = "max"
    /\ Goto(c, [call[c] EXCEPT !.pc = "from", !.from = lastBlock])
    /\ UNCHANGED <<cache, chain, faults>>

\* Where there was none, block 0 is written.
ResetLastBlock(c) == /\ call[c].pc = "from" /\ call[c].from = 0
                     /\ lastBlock' = 0
                     /\ Goto(c, [call[c] EXCEPT !.pc = "reset"])
                     /\ UNCHANGED <<maxFee, scanned, raced, chain, faults>>

\* c writes m, which makes what the others have read stale, and goes on.
Write(c, m, state) ==
    /\ maxFee' = m
    /\ raced' = (raced \/ (call[c].stale /\ m < maxFee))
    /\ call' = [d \in Calls |->
                  IF d = c THEN state
                  ELSE [call[d] EXCEPT !.stale =
                           @ \/ (call[d].pc \in Calculating /\ m # maxFee)]]

\* A mutant of KeepMax: the default is written whether or not a maximum was read.
KeepDefault(c) ==
    /\ \/ call[c].pc = "from" /\ call[c].from # 0
       \/ call[c].pc = "reset"
    /\ Write(c, Default, [call[c] EXCEPT !.pc = "kept", !.max = Default])
    /\ UNCHANGED <<lastBlock, scanned, chain, faults>>

\* The maximum that was read, or the default, is written back.
KeepMax(c) ==
    /\ \/ call[c].pc = "from" /\ call[c].from # 0
       \/ call[c].pc = "reset"
    /\ LET m == IF call[c].max = 0 THEN Default ELSE call[c].max
       IN  Write(c, m, [call[c] EXCEPT !.pc = "kept", !.max = m])
    /\ UNCHANGED <<lastBlock, scanned, chain, faults>>

\* The node tells its height, and is asked for the logs up to it.
ReadHeight(c) ==
    /\ call[c].pc = "kept"
    /\ Goto(c, [call[c] EXCEPT !.pc = "logs", !.latest = Len(chain)])
    /\ UNCHANGED <<cache, chain, faults>>

\* The call has its fee: fundETH asks for the key, an execution is sent.
FeeKnown(c) == IF call[c].kind = "fund" THEN At("key", "fund") ELSE Ended("settled")

\* The executions at the call's contract in the blocks it asked for.
Logs(c) == {b \in 1..call[c].latest : b >= call[c].from} \X {call[c].at}
GasOf(pair) == chain[pair[1]][pair[2]]

\* m is the largest of what c has read and the gas its logs tell.
Largest(m, c) == /\ m = call[c].max \/ \E l \in Logs(c) : m = GasOf(l)
                 /\ m >= call[c].max
                 /\ \A l \in Logs(c) : m >= GasOf(l)

\* A mutant of Record: the block after the last one is written.
RecordNextBlock(c) ==
    /\ call[c].pc = "logs"
    /\ lastBlock' = call[c].latest + 1
    /\ scanned' = scanned \cup Logs(c)
    /\ \E m \in {call[c].max} \cup Gas : Largest(m, c) /\ Write(c, m, FeeKnown(c))
    /\ UNCHANGED <<chain, faults>>

(* The logs and their receipts arrive: the height, not awaited, and the     *)
(* largest gas are written, and the calculation resolves.                   *)
Record(c) ==
    /\ call[c].pc = "logs"
    /\ lastBlock' = call[c].latest
    /\ scanned' = scanned \cup Logs(c)
    /\ \E m \in {call[c].max} \cup Gas : Largest(m, c) /\ Write(c, m, FeeKnown(c))
    /\ UNCHANGED <<chain, faults>>

\* A mutant of LogsFail: the height is written although no log was seen.
LogsFailAdvances(c) ==
    /\ call[c].pc = "logs"
    /\ Fails
    /\ lastBlock' = call[c].latest
    /\ Goto(c, FeeKnown(c))
    /\ UNCHANGED <<maxFee, scanned, raced, chain>>

\* A mutant of LogsFail: the logs are asked for again, without a limit.
LogsFailRetries(c) ==
    /\ call[c].pc = "logs"
    /\ Goto(c, [call[c] EXCEPT !.pc = "kept"])
    /\ UNCHANGED <<cache, chain, faults>>

(* getPastLogs fails: the default is resolved; the loop over no result then *)
(* throws, so that nothing is written.                                      *)
LogsFail(c) ==
    /\ call[c].pc = "logs"
    /\ Fails
    /\ Goto(c, FeeKnown(c))
    /\ UNCHANGED <<cache, chain>>

(* Another operation fails: it is awaited by an async executor (or by the   *)
(* callback of getPastLogs), whose rejection nobody sees.  The promise of   *)
(* the calculation is never settled.                                        *)
Hang(c) == /\ call[c].pc \in Calculating
           /\ Fails
           /\ Goto(c, Ended("hung"))
           /\ UNCHANGED <<cache, chain>>

-----------------------------------------------------------------------------
Calculate(c) == \/ ReadMax(c) \/ ReadLastBlock(c) \/ ResetLastBlock(c)
                \/ KeepMax(c) \/ ReadHeight(c) \/ Record(c)
Proceed(c) == Estimate(c) \/ Key(c) \/ Calculate(c) \/ LogsFail(c)

FundingNext == \/ \E c \in Calls : Start(c) \/ Proceed(c) \/ Hang(c)
               \/ Exit \/ Block

FundingSafety == FundingInit /\ [][FundingNext]_fundingVars

(* The database, redis and the node answer every operation; calls, blocks   *)
(* and failures are never obliged.                                          *)
FundingSpec == FundingSafety /\ \A c \in Calls : WF_fundingVars(Proceed(c))

-----------------------------------------------------------------------------
(* The types.  In particular redis never holds less than the default, and   *)
(* never a block that does not exist.                                       *)
FundingTypeOK ==
    /\ maxFee \in {0} \cup {n \in Nat : n >= Default}
    /\ lastBlock \in 0..Len(chain)
    /\ chain \in Seq([Addresses -> Gas])
    /\ call \in [Calls -> CallState]
    /\ faults \in 0..MaxFaults
    /\ scanned \subseteq (1..Len(chain)) \X Addresses
    /\ raced \in BOOLEAN

(* No block is skipped: whatever calls overlap, fail or hang, every block   *)
(* up to the one in redis had its logs searched by some calculation         *)
(* (FundingController.ts:160).                                              *)
Searched(b) == \E a \in Addresses : <<b, a>> \in scanned
NoBlockSkipped == \A b \in 1..lastBlock : Searched(b)

(* Gas that was recorded is not forgotten: the maximum in redis covers all  *)
(* executions whose gas a calculation ever recorded, through failures and   *)
(* exits in between, unless a calculation that had read the maximum before  *)
(* another wrote it has written its own over it (FundingController.ts:139   *)
(* and :161).                                                               *)
GasRemembered == raced \/ \A l \in scanned : GasOf(l) <= maxFee

(* Every call comes to an end: its promise is settled, it hangs by a failed *)
(* operation, or the process ends (FundingController.ts:150-162).           *)
CallsEnd == \A c \in Calls : call[c].pc \in Waiting ~> call[c].pc \in Over
=============================================================================
