--------------------------- MODULE DetailedProofs --------------------------
(***************************************************************************)
(* DetailedSequencer implements Sequencer, so that all that is proved of   *)
(* Sequencer holds of it, and what its receivers and builders may rely on. *)
(***************************************************************************)
EXTENDS PropertyProofs, DetailedInvariant

-----------------------------------------------------------------------------
(***************************************************************************)
(* The refinement                                                          *)
(***************************************************************************)

LEMMA SelectImplements ==
    ASSUME NEW c \in Call, OpenStream(c) \/ Select(c)
    PROVE  BidOnStream
<1>1. ASSUME Select(c)
      PROVE  StreamEnds \/ StreamFails \/ BidTimesOut \/ \E p \in calls[c].inHand : ReceiveCommitment(p)
    BY <1>1 DEF Select, TakeTimeout, TakeError, TakeCommitment, TakeClosed
<1>2. \A p : ReceiveCommitment(p) => p \in Provider
    BY DEF ReceiveCommitment
<1> QED
    BY <1>1, <1>2 DEF OpenStream, BidOnStream

LEMMA BidImplements == BidTurnInDetail => BidTurn
BY SelectImplements DEF BidTurnInDetail, BidStepInDetail, BidTurn, BidStep

LEMMA KeyImplements == KeyTurnInDetail => KeyTurn \/ UNCHANGED vars
<1> SUFFICES ASSUME KeyTurnInDetail PROVE KeyTurn \/ UNCHANGED vars
    OBVIOUS
<1>1. UNCHANGED <<envVars, rpc, bidder, verifier>>
    BY DEF KeyTurnInDetail
<1>2. ASSUME NEW w \in Worker, NEW x \in Word, StoreWord(w, x)
      PROVE  UNCHANGED <<txs, keyh>> \/ \E i \in keyh[w].keys : SetKey(w, i)
    BY <1>2 DEF StoreWord, SetKey, TakeKey
<1>3. ASSUME NEW w \in Worker, HandleInDetail(w)
      PROVE  UNCHANGED <<txs, keyh>> \/ HandleMessage(w)
    BY <1>2, <1>3 DEF HandleInDetail, HandleMessage, FindTransaction
<1> QED
    BY <1>1, <1>3 DEF KeyTurnInDetail, KeyStepInDetail, KeyTurn, KeyStep, vars

LEMMA DetailedStepImplements == [DetailedNext]_detailedVars => [Next]_vars
BY BidImplements, KeyImplements
DEF DetailedNext, SameTurn, ReceiverTurn, ApiTurn, Next, detailedVars, vars

\* Whatever the goroutines do in detail, the others see Sequencer.
THEOREM DetailedImplementsSequencer == DetailedSpec => ImplementsSequencer
<1>1. DetailedInit => Init
    BY DEF DetailedInit
<1> QED
    BY <1>1, DetailedStepImplements, PTL DEF DetailedSpec, ImplementsSequencer, Spec

\* So the invariant of Sequencer holds of it too.
THEOREM DetailedKeepsInductive == DetailedSpec => []Inductive
BY DetailedImplementsSequencer, InductiveInvariant, PTL DEF ImplementsSequencer

-----------------------------------------------------------------------------
(***************************************************************************)
(* What the steps of Sequencer mean for the details                        *)
(***************************************************************************)

LEMMA InductiveKept == Inductive /\ [DetailedNext]_detailedVars => Inductive'
BY DetailedStepImplements, MineKeeps, RpcKeeps, BidKeeps, KeyKeeps, VerifierKeeps,
   StutterKeeps DEF Next

LEMMA InitDetailed == DetailedInit => DetailedInductive
<1> SUFFICES ASSUME DetailedInit PROVE DetailedInductive
    OBVIOUS
<1>1. TypeOK
    BY InitType DEF DetailedInit
<1>2. CallsOK /\ \A c \in Call : calls[c] = NoCall
    BY DEF DetailedInit, InitCalls, CallsOK, CallState, NoCall
<1>3. ChannelInv /\ OneOpen /\ StreamIsRecorded /\ NothingLeftBehind
    <2>1. bidder.pc = "idle"
        BY DEF DetailedInit, Init, InitBidder, IdleBidder
    <2> QED
        BY <1>2, <2>1 DEF NoCall, ChannelInv, OneOpen, StreamIsRecorded, NothingLeftBehind, IsOpen
<1>4. /\ DOMAIN txs = {}
      /\ \A h \in Hash : slice[h] = {}
      /\ \A w \in Worker : writer[w].hash = {}
      /\ \A q \in Query : api[q].pc = "received"
    BY DEF DetailedInit, Init, InitRestApi, IdleWriter
<1>5. RestApiOK
    BY DEF DetailedInit, InitRestApi, RestApiOK, IdleWriter, ApiReply
<1>6. KeyWordsInv /\ QueryInv
    BY <1>4 DEF KeyWordsInv, QueryInv
<1> QED
    BY <1>1, <1>2, <1>3, <1>5, <1>6 DEF DetailedInductive, DetailedTypeOK

-----------------------------------------------------------------------------
(***************************************************************************)
(* The calls                                                               *)
(***************************************************************************)

CallInv == CallsOK /\ ChannelInv /\ OneOpen /\ StreamIsRecorded /\ NothingLeftBehind

LEMMA CallsStay ==
    ASSUME CallInv, UNCHANGED <<calls, bidder>>
    PROVE  CallInv'
BY DEF CallInv, CallsOK, ChannelInv, OneOpen, StreamIsRecorded, NothingLeftBehind, IsOpen

LEMMA ReceiverKeeps ==
    ASSUME CallInv, ReceiverTurn
    PROVE  CallInv'
<1> USE DEF CallInv
<1>1. bidder' = bidder
    BY DEF ReceiverTurn, vars
<1>2. PICK c \in Call :
          \/ \E p \in Provider : RecvCommitment(c, p)
          \/ \E error \in {"eof", "failed"} : RecvError(c, error)
          \/ CloseCommitments(c)
          \/ DeadlinePasses(c)
    BY DEF ReceiverTurn, ReceiverStep
<1> USE DEF CallsOK, CallState
<1>3. CASE \E p \in Provider : RecvCommitment(c, p)
    <2>1. PICK p \in Provider : RecvCommitment(c, p)
        BY <1>3
    <2>2. CallsOK'
        BY <2>1 DEF RecvCommitment
    <2>3. /\ \A d \in Call : d # c => calls'[d] = calls[d]
          /\ calls'[c].inHand = {p} /\ calls'[c].received = calls[c].received \union {p}
          /\ calls'[c].receiver = "handing" /\ calls[c].receiver = "receiving"
          /\ p \notin calls[c].received
          /\ calls'[c].outcome = calls[c].outcome
          /\ calls'[c].error = calls[c].error /\ calls'[c].closed = calls[c].closed
        BY <2>1 DEF RecvCommitment, IsReceiving
    <2>4. ChannelInv' /\ NothingLeftBehind'
        BY <2>3 DEF ChannelInv, NothingLeftBehind
    <2>5. (StreamIsRecorded /\ OneOpen)'
        BY <1>1, <2>3 DEF StreamIsRecorded, OneOpen, ChannelInv, IsOpen
    <2> QED
        BY <2>2, <2>4, <2>5
<1>4. CASE \E error \in {"eof", "failed"} : RecvError(c, error)
    <2>1. PICK error \in {"eof", "failed"} : RecvError(c, error)
        BY <1>4
    <2>2. CallsOK'
        <3>1. [calls[c] EXCEPT !.receiver = "closing", !.error = error] \in CallState
            OBVIOUS
        <3>2. calls' = [calls EXCEPT ![c] =
                          [calls[c] EXCEPT !.receiver = "closing", !.error = error]]
            BY <2>1 DEF RecvError
        <3> HIDE DEF CallState
        <3> QED
            BY <3>1, <3>2
    <2>3. /\ \A d \in Call : d # c => calls'[d] = calls[d]
          /\ calls'[c].inHand = calls[c].inHand /\ calls'[c].received = calls[c].received
          /\ calls'[c].receiver = "closing" /\ calls[c].receiver = "receiving"
          /\ calls'[c].outcome = calls[c].outcome
          /\ calls'[c].closed = calls[c].closed
        BY <2>1 DEF RecvError, IsReceiving
    <2>4. ChannelInv' /\ NothingLeftBehind'
        BY <2>3 DEF ChannelInv, NothingLeftBehind
    <2>5. (StreamIsRecorded /\ OneOpen)'
        BY <1>1, <2>3 DEF StreamIsRecorded, OneOpen, IsOpen
    <2> QED
        BY <2>2, <2>4, <2>5
<1>5. CASE CloseCommitments(c)
    <2>1. CallsOK'
        <3>1. [calls[c] EXCEPT !.receiver = "done", !.closed = TRUE] \in CallState
            OBVIOUS
        <3>2. calls' = [calls EXCEPT ![c] =
                          [calls[c] EXCEPT !.receiver = "done", !.closed = TRUE]]
            BY <1>5 DEF CloseCommitments
        <3> HIDE DEF CallState
        <3> QED
            BY <3>1, <3>2
    <2>2. /\ \A d \in Call : d # c => calls'[d] = calls[d]
          /\ calls'[c].inHand = calls[c].inHand /\ calls'[c].received = calls[c].received
          /\ calls'[c].receiver = "done" /\ calls[c].receiver = "closing"
          /\ calls'[c].outcome = calls[c].outcome
        BY <1>5 DEF CloseCommitments
    <2>3. ChannelInv' /\ NothingLeftBehind'
        BY <2>2 DEF ChannelInv, NothingLeftBehind
    <2>4. (StreamIsRecorded /\ OneOpen)'
        BY <1>1, <2>2 DEF StreamIsRecorded, OneOpen, IsOpen
    <2> QED
        BY <2>1, <2>3, <2>4
<1>6. CASE DeadlinePasses(c)
    <2>1. CallsOK'
        <3>1. [calls[c] EXCEPT !.late = TRUE] \in CallState
            OBVIOUS
        <3>2. calls' = [calls EXCEPT ![c] = [calls[c] EXCEPT !.late = TRUE]]
            BY <1>6 DEF DeadlinePasses
        <3> HIDE DEF CallState
        <3> QED
            BY <3>1, <3>2
    <2>2. \A d \in Call :
              /\ calls'[d].inHand = calls[d].inHand /\ calls'[d].received = calls[d].received
              /\ calls'[d].receiver = calls[d].receiver /\ calls'[d].error = calls[d].error
              /\ calls'[d].outcome = calls[d].outcome /\ calls'[d].closed = calls[d].closed
        BY <1>6 DEF DeadlinePasses
    <2>3. (ChannelInv /\ NothingLeftBehind /\ StreamIsRecorded /\ OneOpen)'
        BY <1>1, <2>2 DEF OneOpen, ChannelInv, NothingLeftBehind, StreamIsRecorded, IsOpen
    <2> QED
        BY <2>1, <2>3
<1> QED
    BY <1>2, <1>3, <1>4, <1>5, <1>6

\* A step of the loop away from the streams.
LEMMA AroundKeeps ==
    ASSUME Inductive, CallInv, BidAround, UNCHANGED calls
    PROVE  CallInv'
<1> USE DEF CallInv, At, LoopEnds
<1>1. bidder \in [pc : BidderPc, block : Nat, hashes : SUBSET Hash,
                  identities : SUBSET Identity, pending : SUBSET Hash,
                  commitments : SUBSET Provider]
    BY DEF Inductive, TypeOK, BidderOK
<1>2. bidder.pc = "stream" => bidder'.pc = "stream" /\ bidder'.commitments = bidder.commitments
    <2> SUFFICES ASSUME bidder.pc = "stream"
                 PROVE  bidder'.pc = "stream" /\ bidder'.commitments = bidder.commitments
        OBVIOUS
    <2>1. PICK h \in Hash : MarkCommitted(h)
        BY DEF BidAround, ReadBlock, NothingToBid, Classify, BlockExpired, MarkBidSubmitted,
               NoBid, CreateBid, SendBidFails, ReturnError, RemarkInit, ResetInit, BidDropped,
               SendCommitment, SkipCommitment, BidDone
    <2> QED
        BY <1>1, <2>1 DEF MarkCommitted, Turn
<1>3. bidder'.pc = "stream" => bidder.pc = "stream"
    <2>1. CASE \E h \in Hash :
                 \/ BlockExpired(h) \/ MarkBidSubmitted(h) \/ MarkCommitted(h)
                 \/ RemarkInit(h) \/ ResetInit(h)
        BY <1>1, <2>1
        DEF BlockExpired, MarkBidSubmitted, MarkCommitted, RemarkInit, ResetInit, WriteStatus,
            Turn
    <2>2. CASE \E p \in Provider : SendCommitment(p) \/ SkipCommitment(p)
        BY <1>1, <2>2 DEF SendCommitment, SkipCommitment
    <2>3. CASE bidder' = IdleBidder
        BY <2>3 DEF IdleBidder
    <2> QED
        BY <1>1, <2>1, <2>2, <2>3
        DEF BidAround, ReadBlock, NothingToBid, Classify, NoBid, CreateBid, SendBidFails,
            ReturnError, GoTo, BidDropped, BidDone
<1>4. (CallsOK /\ ChannelInv /\ NothingLeftBehind)'
    BY DEF CallsOK, ChannelInv, IsOpen, NothingLeftBehind
<1>5. (StreamIsRecorded /\ OneOpen)'
    BY <1>2, <1>3 DEF StreamIsRecorded, OneOpen, IsOpen
<1> QED
    BY <1>4, <1>5

\* A bid is opened when no call is open, and its commitments are none.
LEMMA OpenKeeps ==
    ASSUME Inductive, CallInv, NEW c \in Call, OpenStream(c)
    PROVE  CallInv'
<1> USE DEF CallInv
<1>1. bidder \in [pc : BidderPc, block : Nat, hashes : SUBSET Hash,
                  identities : SUBSET Identity, pending : SUBSET Hash,
                  commitments : SUBSET Provider]
    BY DEF Inductive, TypeOK, BidderOK
<1>2. /\ bidder.pc = "mark" /\ bidder'.pc = "stream"
      /\ bidder'.commitments = bidder.commitments
    BY <1>1 DEF OpenStream, SendBid, GoTo, LoopEnds, At
<1>3. bidder.commitments = {}
    BY <1>2 DEF Inductive, BidLocals
<1>4. \A d \in Call : ~ IsOpen(d)
    BY <1>2 DEF StreamIsRecorded
<1>5. CallsOK'
    <2>1. [calls[c] EXCEPT !.outcome = "open", !.receiver = "receiving"] \in CallState
        BY DEF CallsOK, CallState
    <2>2. calls' = [calls EXCEPT ![c] =
                      [calls[c] EXCEPT !.outcome = "open", !.receiver = "receiving"]]
        BY DEF OpenStream
    <2> QED
        BY <2>1, <2>2 DEF CallsOK
<1>6. /\ \A d \in Call : d # c => calls'[d] = calls[d]
      /\ calls'[c].inHand = calls[c].inHand /\ calls'[c].received = calls[c].received
      /\ calls'[c].receiver = "receiving" /\ calls'[c].outcome = "open"
      /\ calls[c].outcome = "none"
      /\ calls'[c].error = calls[c].error /\ calls'[c].closed = calls[c].closed
    BY DEF OpenStream, CallsOK, CallState
<1>7. /\ calls[c].receiver = "none" /\ calls[c].inHand = {} /\ calls[c].received = {}
      /\ calls[c].error = "none" /\ ~ calls[c].closed
    BY <1>6 DEF ChannelInv
<1>8. ChannelInv' /\ NothingLeftBehind'
    BY <1>6, <1>7 DEF ChannelInv, NothingLeftBehind
<1>9. (StreamIsRecorded /\ OneOpen)'
    BY <1>2, <1>3, <1>4, <1>6, <1>7 DEF StreamIsRecorded, OneOpen, IsOpen
<1> QED
    BY <1>5, <1>8, <1>9

\* The cases of the select: when the call returns, the error or the closed
\* channel says that the receiver has nothing in hand.
LEMMA SelectKeeps ==
    ASSUME Inductive, CallInv, NEW c \in Call, Select(c)
    PROVE  CallInv'
<1> USE DEF CallInv
<1>1. bidder \in [pc : BidderPc, block : Nat, hashes : SUBSET Hash,
                  identities : SUBSET Identity, pending : SUBSET Hash,
                  commitments : SUBSET Provider]
    BY DEF Inductive, TypeOK, BidderOK
<1>2. IsOpen(c) /\ bidder.pc = "stream"
    BY DEF Select, StreamIsRecorded
<1>3. ASSUME NEW outcome \in {"ok", "failed", "timeout"}, NEW error \in {"none", "eof", "failed"},
             calls' = [calls EXCEPT ![c] =
                           [calls[c] EXCEPT !.outcome = outcome, !.error = error, !.late = TRUE]],
             error = "none" \/ error = calls[c].error,
             outcome # "timeout" => calls[c].receiver \in {"closing", "done"},
             StreamEnds \/ StreamFails \/ BidTimesOut
      PROVE  CallInv'
    <2>1. CallsOK'
        <3>1. [calls[c] EXCEPT !.outcome = outcome, !.error = error, !.late = TRUE] \in CallState
            BY DEF CallsOK, CallState
        <3> QED
            BY <1>3, <3>1 DEF CallsOK
    <2>2. /\ \A d \in Call : d # c => calls'[d] = calls[d]
          /\ calls'[c].inHand = calls[c].inHand /\ calls'[c].received = calls[c].received
          /\ calls'[c].receiver = calls[c].receiver /\ calls'[c].outcome = outcome
          /\ calls'[c].error = error /\ calls'[c].closed = calls[c].closed
        BY <1>3 DEF CallsOK, CallState
    <2>3. ChannelInv' /\ NothingLeftBehind'
        BY <1>2, <1>3, <2>2 DEF ChannelInv, NothingLeftBehind, IsOpen
    <2>4. bidder'.pc # "stream"
        BY <1>1, <1>3 DEF StreamEnds, ReturnCommitments, StreamFails, BidTimesOut, GoTo
    <2>5. (StreamIsRecorded /\ OneOpen)'
        BY <1>2, <2>2, <2>4 DEF StreamIsRecorded, OneOpen, IsOpen
    <2> QED
        BY <2>1, <2>3, <2>5
<1>4. CASE TakeTimeout(c)
    <2>1. calls' = [calls EXCEPT ![c] =
                      [calls[c] EXCEPT !.outcome = "timeout", !.error = calls[c].error, !.late = TRUE]]
        BY <1>4 DEF TakeTimeout, Return, CallsOK, CallState
    <2>2. calls[c].error \in {"none", "eof", "failed"}
        BY DEF CallsOK, CallState
    <2> QED
        BY <1>3, <1>4, <2>1, <2>2 DEF TakeTimeout
<1>5. CASE TakeError(c)
    <2>1. calls' = [calls EXCEPT ![c] =
                      [calls[c] EXCEPT !.outcome = ErrorOutcome(c), !.error = "none", !.late = TRUE]]
        BY <1>5 DEF TakeError, CallsOK, CallState
    <2>2. /\ ErrorOutcome(c) \in {"ok", "failed", "timeout"}
          /\ calls[c].receiver \in {"closing", "done"}
        BY <1>5 DEF ErrorOutcome, TakeError, ChannelInv
    <2> QED
        BY <1>3, <1>5, <2>1, <2>2 DEF TakeError
<1>6. CASE TakeClosed(c)
    <2>1. calls' = [calls EXCEPT ![c] =
                      [calls[c] EXCEPT !.outcome = "ok", !.error = calls[c].error, !.late = TRUE]]
        BY <1>6 DEF TakeClosed, Return, CallsOK, CallState
    <2>2. /\ calls[c].error \in {"none", "eof", "failed"}
          /\ calls[c].receiver \in {"closing", "done"}
        BY <1>6 DEF CallsOK, CallState, TakeClosed, ChannelInv
    <2> QED
        BY <1>3, <1>6, <2>1, <2>2 DEF TakeClosed
<1>7. CASE TakeCommitment(c)
    <2>1. PICK p \in calls[c].inHand : ReceiveCommitment(p)
        BY <1>7 DEF TakeCommitment
    <2>2. /\ bidder'.commitments = bidder.commitments \union {p}
          /\ bidder'.pc = bidder.pc
        BY <1>1, <2>1 DEF ReceiveCommitment
    <2>3. CallsOK'
        <3>1. [calls[c] EXCEPT !.receiver = "receiving", !.inHand = {}] \in CallState
            BY DEF CallsOK, CallState
        <3>2. calls' = [calls EXCEPT ![c] =
                          [calls[c] EXCEPT !.receiver = "receiving", !.inHand = {}]]
            BY <1>7 DEF TakeCommitment
        <3> QED
            BY <3>1, <3>2 DEF CallsOK
    <2>4. /\ \A d \in Call : d # c => calls'[d] = calls[d]
          /\ calls'[c].inHand = {} /\ calls'[c].received = calls[c].received
          /\ calls'[c].receiver = "receiving" /\ calls'[c].outcome = calls[c].outcome
          /\ calls'[c].error = calls[c].error /\ calls'[c].closed = calls[c].closed
        BY <1>7 DEF TakeCommitment, CallsOK, CallState
    <2>5. calls[c].inHand = {p} /\ calls[c].receiver = "handing"
        BY <2>1 DEF ChannelInv
    <2>6. ChannelInv' /\ NothingLeftBehind'
        BY <1>2, <2>4, <2>5 DEF ChannelInv, NothingLeftBehind, IsOpen
    <2>7. (StreamIsRecorded /\ OneOpen)'
        BY <1>2, <2>2, <2>4, <2>5 DEF StreamIsRecorded, OneOpen, IsOpen
    <2> QED
        BY <2>3, <2>6, <2>7
<1> QED
    BY <1>4, <1>5, <1>6, <1>7 DEF Select

LEMMA CallsKept ==
    ASSUME Inductive, CallInv, [DetailedNext]_detailedVars
    PROVE  CallInv'
<1>1. CASE UNCHANGED <<calls, bidder>>
    BY <1>1, CallsStay
<1>2. CASE BidTurnInDetail
    BY <1>2, AroundKeeps, OpenKeeps, SelectKeeps DEF BidTurnInDetail, BidStepInDetail
<1>3. CASE ReceiverTurn
    BY <1>3, ReceiverKeeps
<1> QED
    BY <1>1, <1>2, <1>3
    DEF DetailedNext, SameTurn, MineStep, RpcTurn, VerifierTurn, KeyTurnInDetail, ApiTurn,
        vars, detail, detailedVars

-----------------------------------------------------------------------------
(***************************************************************************)
(* The words of the keys                                                   *)
(***************************************************************************)

WordInv == RestApiOK /\ KeyWordsInv

\* A step that is not of the key handler writes no word, and no key.
LEMMA WordsStay ==
    ASSUME Inductive, WordInv, [Next]_vars, UNCHANGED <<slice, opens, writer, keyh>>,
           \A h \in DOMAIN txs' :
               txs'[h].decryptionKey => h \in DOMAIN txs /\ txs[h].decryptionKey
    PROVE  KeyWordsInv'
<1>1. /\ gossip \subseteq gossip'
      /\ \A h \in DOMAIN txs : h \in DOMAIN txs' /\ txs'[h].identity = txs[h].identity
    BY StoreGrows
<1> QED
    BY <1>1 DEF WordInv, KeyWordsInv

\* A worker that takes a message or ends its turn is not writing.
LEMMA HandlerWords ==
    ASSUME Inductive, WordInv, NEW w \in Worker, UNCHANGED <<slice, opens, writer>>,
           \A h \in writer[w].hash : FALSE,
           \A v \in Worker : v # w => keyh'[v] = keyh[v],
           gossip' = gossip, DOMAIN txs' = DOMAIN txs,
           \A h \in DOMAIN txs : txs'[h].identity = txs[h].identity
                               /\ txs'[h].decryptionKey = txs[h].decryptionKey
    PROVE  KeyWordsInv'
BY DEF WordInv, KeyWordsInv

\* The worker writes a word of the key, and with the last one the transaction
\* has its key.
LEMMA StoreWordKeeps ==
    ASSUME Inductive, WordInv, KeyTurnInDetail, NEW w \in Worker, NEW x \in Word,
           StoreWord(w, x)
    PROVE  WordInv'
<1> USE DEF WordInv
<1>1. PICK h \in writer[w].hash :
          /\ slice' = [slice EXCEPT ![h] = @ \union {x}]
          /\ writer' = [writer EXCEPT ![w] =
                          IF writer[w].words \union {x} = Word
                          THEN IdleWriter
                          ELSE [hash |-> {h}, words |-> writer[w].words \union {x}]]
          /\ IF IsLastWord(w, x) THEN SetKey(w, txs[h].identity)
                                 ELSE UNCHANGED <<txs, keyh>>
          /\ opens' \in {opens, opens \ {h}, opens \union {h}}
    BY DEF StoreWord, IsLastWord
<1>2. /\ writer[w].hash = {h} /\ writer[w].words \subseteq slice[h]
      /\ h \in DOMAIN txs /\ h \in Hash /\ txs[h].identity \in keyh[w].keys
    BY <1>1 DEF KeyWordsInv, RestApiOK
<1>3. txs[h].identity \in gossip /\ txs[h].identity \in Identity
    BY <1>2, ForeignAssumption
    DEF Inductive, KeyInv, Released, TypeOK, TransactionStoreOK, StoredTransaction
<1>4. gossip' = gossip /\ api' = api
    BY DEF KeyTurnInDetail, envVars
<1>5. \A g \in Hash : slice'[g] = IF g = h THEN slice[h] \union {x} ELSE slice[g]
    BY <1>1, <1>2 DEF RestApiOK
<1>6. \A v \in Worker : v # w => writer'[v] = writer[v]
    BY <1>1 DEF RestApiOK
<1>7. RestApiOK'
    <2>1. slice' \in [Hash -> SUBSET Word]
        BY <1>1, <1>2 DEF RestApiOK
    <2>2. IdleWriter \in [hash : SUBSET Hash, words : SUBSET Word]
        BY DEF IdleWriter
    <2>3. [hash |-> {h}, words |-> writer[w].words \union {x}]
              \in [hash : SUBSET Hash, words : SUBSET Word]
        BY <1>2 DEF RestApiOK
    <2>4. writer' \in [Worker -> [hash : SUBSET Hash, words : SUBSET Word]]
        BY <1>1, <2>2, <2>3 DEF RestApiOK
    <2>5. opens' \subseteq Hash
        BY <1>1, <1>2 DEF RestApiOK
    <2> QED
        BY <1>4, <2>1, <2>4, <2>5 DEF RestApiOK
<1>8. CASE IsLastWord(w, x)
    <2>1. /\ writer'[w].hash = {}
          /\ SetKey(w, txs[h].identity)
        BY <1>1, <1>8 DEF IsLastWord, IdleWriter, RestApiOK
    <2>2. PICK g \in DOMAIN txs :
              /\ txs[g].identity = txs[h].identity
              /\ SetDecryptionKey(g)
              /\ keyh' = [keyh EXCEPT ![w].keys = @ \ {txs[h].identity}, ![w].found = {g}]
        BY <2>1 DEF SetKey, GetTransactionsByIdentity
    <2>3. g = h
        BY <1>2, <1>3, <2>2 DEF Inductive, ReplyIsKept, Request
    <2>4. OnlyKey(h)
        BY <2>2, <2>3, KeyWrite DEF Inductive, TypeOK
    <2>5. slice'[h] = Word
        BY <1>2, <1>5, <1>8 DEF IsLastWord, RestApiOK
    <2>6. \A v \in Worker : v # w => keyh'[v] = keyh[v]
        BY <2>2 DEF Inductive, TypeOK, KeyHandlerOK
    <2>7. /\ DOMAIN txs' = DOMAIN txs
          /\ \A f \in DOMAIN txs :
                /\ f \in Hash
                /\ txs'[f].identity = txs[f].identity
                /\ f # h => txs'[f].decryptionKey = txs[f].decryptionKey
        BY <2>4 DEF OnlyKey, SameTransactions, Inductive, TypeOK, TransactionStoreOK
    <2>8. \A f \in Hash :
              slice'[f] # {} => f \in DOMAIN txs' /\ txs'[f].identity \in gossip'
        BY <1>2, <1>3, <1>4, <1>5, <2>7 DEF KeyWordsInv
    <2>9. \A f \in DOMAIN txs' : txs'[f].decryptionKey => slice'[f] = Word
        BY <1>5, <2>5, <2>7 DEF KeyWordsInv
    <2>10. \A v \in Worker : \A f \in writer'[v].hash :
              /\ writer'[v].hash = {f}
              /\ writer'[v].words \subseteq slice'[f]
              /\ f \in DOMAIN txs'
              /\ txs'[f].identity \in keyh'[v].keys
        BY <1>5, <1>6, <2>1, <2>6, <2>7 DEF KeyWordsInv
    <2>11. KeyWordsInv'
        BY <2>8, <2>9, <2>10 DEF KeyWordsInv
    <2> QED
        BY <1>7, <2>11
<1>9. CASE ~ IsLastWord(w, x)
    <2>1. UNCHANGED <<txs, keyh>>
        BY <1>1, <1>9
    <2>2. writer'[w] = [hash |-> {h}, words |-> writer[w].words \union {x}]
        BY <1>1, <1>9 DEF IsLastWord, RestApiOK
    <2>3. KeyWordsInv'
        BY <1>2, <1>3, <1>4, <1>5, <1>6, <2>1, <2>2
        DEF KeyWordsInv, Inductive, TypeOK, TransactionStoreOK
    <2> QED
        BY <1>7, <2>3
<1> QED
    BY <1>8, <1>9

LEMMA KeyWordsKept ==
    ASSUME Inductive, WordInv, KeyTurnInDetail
    PROVE  WordInv'
<1> USE DEF WordInv
<1>1. gossip' = gossip /\ api' = api
    BY DEF KeyTurnInDetail, envVars
<1>2. PICK w \in Worker :
          \/ /\ \E keys \in SUBSET Released : ReceiveKeys(w, keys)
             /\ UNCHANGED <<slice, opens, writer>>
          \/ HandleInDetail(w)
    BY DEF KeyTurnInDetail, KeyStepInDetail
<1>3. CASE /\ \E keys \in SUBSET Released : ReceiveKeys(w, keys)
           /\ UNCHANGED <<slice, opens, writer>>
    <2>1. /\ keyh[w].keys = {} /\ txs' = txs
          /\ \A v \in Worker : v # w => keyh'[v] = keyh[v]
        BY <1>3 DEF ReceiveKeys, IdleHandler, Inductive, TypeOK, KeyHandlerOK
    <2>2. \A h \in writer[w].hash : FALSE
        BY <2>1 DEF KeyWordsInv
    <2>3. KeyWordsInv'
        BY <1>1, <1>3, <2>1, <2>2, HandlerWords
    <2> QED
        BY <1>1, <1>3, <2>3 DEF RestApiOK
<1>4. CASE /\ writer[w] = IdleWriter
           /\ \/ \E i \in keyh[w].keys : SkipUnknown(w, i)
              \/ MarkDecrypted(w)
           /\ UNCHANGED <<slice, opens, writer>>
    <2>1. /\ \A v \in Worker : v # w => keyh'[v] = keyh[v]
          /\ DOMAIN txs' = DOMAIN txs
          /\ \A h \in DOMAIN txs : txs'[h].identity = txs[h].identity
                                 /\ txs'[h].decryptionKey = txs[h].decryptionKey
        <3>1. CASE \E i \in keyh[w].keys : SkipUnknown(w, i)
            BY <3>1 DEF SkipUnknown, Inductive, TypeOK, KeyHandlerOK
        <3>2. CASE MarkDecrypted(w)
            <4>1. PICK h \in keyh[w].found :
                      /\ UpdateTransactionStatus(h, "decrypted")
                      /\ keyh' = [keyh EXCEPT ![w].found = {}]
                BY <3>2 DEF MarkDecrypted
            <4>2. OnlyStatus(h, "decrypted")
                BY <4>1, StatusWrite DEF Inductive, TypeOK, KeyInv, TransactionStatus
            <4> QED
                BY <4>1, <4>2
                DEF OnlyStatus, SameTransactions, Inductive, TypeOK, KeyHandlerOK
        <3> QED
            BY <1>4, <3>1, <3>2
    <2>2. KeyWordsInv'
        BY <1>1, <1>4, <2>1, HandlerWords DEF IdleWriter
    <2> QED
        BY <1>1, <1>4, <2>2 DEF RestApiOK
<1>5. CASE \E i \in keyh[w].keys : FindTransaction(w, i)
    <2> PICK i \in keyh[w].keys : FindTransaction(w, i)
        BY <1>5
    <2>1. PICK h \in GetTransactionsByIdentity(i) :
              /\ writer' = [writer EXCEPT ![w] = [hash |-> {h}, words |-> {}]]
              /\ UNCHANGED <<txs, keyh, slice, opens>>
        BY DEF FindTransaction, BeginKey
    <2>2. h \in DOMAIN txs /\ h \in Hash /\ txs[h].identity \in keyh[w].keys
        BY <2>1 DEF GetTransactionsByIdentity, Inductive, TypeOK, TransactionStoreOK
    <2>3. [hash |-> {h}, words |-> {}] \in [hash : SUBSET Hash, words : SUBSET Word]
        BY <2>2
    <2>4. RestApiOK'
        BY <1>1, <2>1, <2>3 DEF RestApiOK
    <2>5. /\ writer'[w] = [hash |-> {h}, words |-> {}]
          /\ \A v \in Worker : v # w => writer'[v] = writer[v]
        BY <2>1 DEF RestApiOK
    <2>6. KeyWordsInv'
        BY <1>1, <2>1, <2>2, <2>5 DEF KeyWordsInv
    <2> QED
        BY <2>4, <2>6
<1>6. CASE \E x \in Word : StoreWord(w, x)
    BY <1>6, StoreWordKeeps
<1> QED
    BY <1>2, <1>3, <1>4, <1>5, <1>6 DEF HandleInDetail

-----------------------------------------------------------------------------
(***************************************************************************)
(* The queries                                                             *)
(***************************************************************************)

\* No word of a key is taken back.
LEMMA SliceGrows ==
    ASSUME DetailedTypeOK, KeyWordsInv, [DetailedNext]_detailedVars
    PROVE  \A h \in Hash : slice[h] \subseteq slice'[h]
<1>1. CASE UNCHANGED slice
    BY <1>1
<1>2. CASE \E w \in Worker, x \in Word : StoreWord(w, x)
    BY <1>2 DEF StoreWord, DetailedTypeOK, RestApiOK
<1> QED
    BY <1>1, <1>2
    DEF DetailedNext, SameTurn, BidTurnInDetail, ReceiverTurn, ApiTurn, KeyTurnInDetail,
        KeyStepInDetail, HandleInDetail, FindTransaction, detail, detailedVars

LEMMA ApiWordInv ==
    ASSUME WordInv, ApiTurn
    PROVE  WordInv'
<1> USE DEF WordInv
<1>1. KeyWordsInv'
    BY DEF ApiTurn, KeyWordsInv, vars, envVars
<1>2. PICK q \in Query : GetTransaction(q) \/ CheckKey(q) \/ Decrypt(q)
    BY DEF ApiTurn, ApiStep
<1>3. PICK pc \in {"check", "decrypt"} \union ApiReply : Proceed(q, pc)
    BY <1>2 DEF GetTransaction, CheckKey, Decrypt, ReadKey, ApiReply
<1>4. UNCHANGED <<slice, opens, writer>>
    BY DEF ApiTurn
<1>5. RestApiOK'
    BY <1>3, <1>4 DEF Proceed, RestApiOK
<1> QED
    BY <1>1, <1>5

LEMMA WordInvKept ==
    ASSUME Inductive, WordInv, [DetailedNext]_detailedVars
    PROVE  WordInv'
<1>1. [Next]_vars
    BY DetailedStepImplements
<1>2. CASE SameTurn \/ BidTurnInDetail
    <2>1. MineStep \/ RpcTurn \/ BidTurn \/ VerifierTurn
        BY <1>2, BidImplements DEF SameTurn
    <2>2. UNCHANGED <<slice, opens, writer, keyh, api>>
        BY <1>2 DEF SameTurn, detail, BidTurnInDetail, MineStep, RpcTurn, VerifierTurn
    <2>3. KeyWordsInv'
        BY <1>1, <2>1, <2>2, KeysStay, WordsStay
    <2> QED
        BY <2>2, <2>3 DEF WordInv, RestApiOK
<1>3. CASE ReceiverTurn \/ UNCHANGED detailedVars
    BY <1>3 DEF ReceiverTurn, detailedVars, detail, vars, envVars, WordInv, RestApiOK, KeyWordsInv
<1>4. CASE KeyTurnInDetail
    BY <1>4, KeyWordsKept
<1>5. CASE ApiTurn
    BY <1>5, ApiWordInv
<1> QED
    BY <1>2, <1>3, <1>4, <1>5 DEF DetailedNext

LEMMA QueriesKept ==
    ASSUME Inductive, WordInv, QueryInv, DetailedTypeOK, [DetailedNext]_detailedVars
    PROVE  QueryInv'
<1>1. \A h \in Hash : slice[h] \subseteq slice'[h]
    BY SliceGrows DEF WordInv
<1>2. \A h \in DOMAIN txs : h \in DOMAIN txs'
    BY DetailedStepImplements, StoreGrows
<1>3. \A q \in Query : api[q].hash \in Hash
    BY DEF DetailedTypeOK, RestApiOK
<1>4. CASE api' = api
    BY <1>1, <1>2, <1>3, <1>4 DEF QueryInv
<1>5. CASE ApiTurn
    <2>1. PICK q \in Query : GetTransaction(q) \/ CheckKey(q) \/ Decrypt(q)
        BY <1>5 DEF ApiTurn, ApiStep
    <2>2. PICK pc \in {"check", "decrypt"} \union ApiReply :
              /\ Proceed(q, pc)
              /\ pc = "plain" => "pointer" \in slice[api[q].hash]
              /\ pc \in {"check", "decrypt", "plain"} => api[q].hash \in DOMAIN txs
              /\ pc \in {"decrypt", "plain"} => "length" \in slice[api[q].hash]
        <3>1. CASE GetTransaction(q)
            BY <3>1 DEF GetTransaction, ApiReply
        <3>2. CASE CheckKey(q)
            BY <3>2 DEF CheckKey, ApiReply, HasKey, KeyOf, QueryInv
        <3>3. CASE Decrypt(q)
            <4>1. ReadKey(q) \in ApiReply \ {"notfound", "locked"}
                BY DEF ReadKey, ApiReply
            <4>2. ReadKey(q) = "plain" => "pointer" \in slice[api[q].hash]
                BY DEF ReadKey, KeyOf
            <4> QED
                BY <3>3, <4>1, <4>2 DEF Decrypt, QueryInv
        <3> QED
            BY <2>1, <3>1, <3>2, <3>3
    <2>3. /\ \A p \in Query : p # q => api'[p] = api[p]
          /\ api'[q].pc = pc /\ api'[q].hash = api[q].hash
        BY <2>2 DEF Proceed, DetailedTypeOK, RestApiOK
    <2> QED
        BY <1>1, <1>2, <1>3, <2>2, <2>3 DEF QueryInv
<1> QED
    BY <1>4, <1>5
    DEF DetailedNext, SameTurn, BidTurnInDetail, ReceiverTurn, KeyTurnInDetail, detail,
        detailedVars

-----------------------------------------------------------------------------
(***************************************************************************)
(* The theorems                                                            *)
(***************************************************************************)

LEMMA DetailedStep ==
    Inductive /\ DetailedInductive /\ [DetailedNext]_detailedVars => DetailedInductive'
<1> SUFFICES ASSUME Inductive, DetailedInductive, [DetailedNext]_detailedVars
             PROVE  DetailedInductive'
    OBVIOUS
<1>1. TypeOK'
    BY InductiveKept DEF Inductive
<1>2. CallInv'
    BY CallsKept DEF DetailedInductive, DetailedTypeOK, CallInv
<1>3. WordInv'
    BY WordInvKept DEF DetailedInductive, DetailedTypeOK, WordInv
<1>4. QueryInv'
    BY QueriesKept DEF DetailedInductive, DetailedTypeOK, WordInv
<1> QED
    BY <1>1, <1>2, <1>3, <1>4 DEF DetailedInductive, DetailedTypeOK, CallInv, WordInv

\* The inductive invariant of the receivers, the keys and the builders.
THEOREM DetailedInvariantHolds == DetailedSpec => []DetailedInductive
BY InitDetailed, DetailedStep, DetailedKeepsInductive, PTL DEF DetailedSpec

\* No commitment that the stream delivered is left behind when a call returns
\* because its stream ended (bidder.go:191-248).
THEOREM NothingIsLeftBehind == DetailedSpec => []NothingLeftBehind
<1>1. DetailedInductive => NothingLeftBehind
    BY DEF DetailedInductive
<1> QED
    BY <1>1, DetailedInvariantHolds, PTL

\* A call records what its stream delivers, and nothing of another call's.
THEOREM StreamsAreRecorded == DetailedSpec => []StreamIsRecorded
<1>1. DetailedInductive => StreamIsRecorded
    BY DEF DetailedInductive
<1> QED
    BY <1>1, DetailedInvariantHolds, PTL

\* The status follows the key (msg_handler.go:58-59).
THEOREM DecryptedCanBeRead == DetailedSpec => []DecryptedIsReadable
<1>1. Inductive /\ DetailedInductive => DecryptedIsReadable
    BY DEF Inductive, GossipInv, DetailedInductive, KeyWordsInv, DecryptedIsReadable
<1> QED
    BY <1>1, DetailedInvariantHolds, DetailedKeepsInductive, PTL

\* Builders see a transaction in plain only when it is committed.
THEOREM PlainWhenCommitted == DetailedSpec => []PlainOnlyIfCommitted
<1>1. Inductive /\ DetailedInductive => PlainOnlyIfCommitted
    BY DEF Inductive, GossipInv, DetailedInductive, DetailedTypeOK, RestApiOK, QueryInv,
           KeyWordsInv, PlainOnlyIfCommitted, HasStatus
<1> QED
    BY <1>1, DetailedInvariantHolds, DetailedKeepsInductive, PTL

\* A builder's query takes one step at a time, and no other step moves it.
LEMMA QueryStep ==
    ASSUME DetailedTypeOK, [DetailedNext]_detailedVars, NEW q \in Query, api'[q].pc # api[q].pc
    PROVE  GetTransaction(q) \/ CheckKey(q) \/ Decrypt(q)
<1>1. ApiTurn
    BY DEF DetailedNext, SameTurn, BidTurnInDetail, ReceiverTurn, KeyTurnInDetail, detail,
           detailedVars
<1>2. PICK r \in Query : GetTransaction(r) \/ CheckKey(r) \/ Decrypt(r)
    BY <1>1 DEF ApiTurn, ApiStep
<1>3. r = q
    BY <1>2 DEF GetTransaction, CheckKey, Decrypt, Proceed, DetailedTypeOK, RestApiOK
<1> QED
    BY <1>2, <1>3

\* A step of a query for a stored transaction with a whole key.
LEMMA WholeKeyStep ==
    ASSUME DetailedTypeOK, [DetailedNext]_detailedVars, NEW q \in Query,
           api'[q].pc # api[q].pc, api[q].hash \in DOMAIN txs, KeyOf(q) = Word
    PROVE  \/ api'[q].pc \in {"check", "decrypt"}
           \/ api'[q].pc = IF Opens(q) THEN "plain" ELSE "refused"
<1>1. \A pc : Proceed(q, pc) => api'[q].pc = pc
    BY DEF Proceed, DetailedTypeOK, RestApiOK
<1>2. HasKey(q) /\ ReadKey(q) = IF Opens(q) THEN "plain" ELSE "refused"
    BY DEF HasKey, ReadKey, Word
<1> QED
    BY <1>1, <1>2, QueryStep DEF GetTransaction, CheckKey, Decrypt

\* When one builder got a transaction in plain, it is there for the next one, and so
\* is a key with both its words.
THEOREM PlainForAll == DetailedSpec => PlainStays
<1>1. DetailedInductive /\ [DetailedNext]_detailedVars
          => \A p, q \in Query :
                api[p].pc = "plain" /\ api[q].hash = api[p].hash /\ api'[q].pc # api[q].pc
                    => api'[q].pc \notin {"notfound", "locked", "broken"}
    <2> SUFFICES ASSUME DetailedInductive, [DetailedNext]_detailedVars,
                        NEW p \in Query, NEW q \in Query,
                        api[p].pc = "plain", api[q].hash = api[p].hash, api'[q].pc # api[q].pc
                 PROVE  api'[q].pc \notin {"notfound", "locked", "broken"}
        OBVIOUS
    <2>1. api[q].hash \in DOMAIN txs /\ {"pointer", "length"} \subseteq KeyOf(q)
        BY DEF DetailedInductive, QueryInv, KeyOf
    <2>2. KeyOf(q) = Word
        BY <2>1 DEF Word, KeyOf, DetailedInductive, DetailedTypeOK, RestApiOK
    <2> QED
        BY <2>1, <2>2, WholeKeyStep DEF DetailedInductive
<1> QED
    BY <1>1, DetailedInvariantHolds, PTL DEF DetailedSpec, PlainStays

\* The status decrypted vouches for a transaction with a whole key, so that a
\* builder's query runs to the end, where the key decides.
THEOREM DecryptedAreAnswered == DetailedSpec => DecryptedIsAnswered
<1>1. Inductive /\ DetailedInductive /\ [DetailedNext]_detailedVars
          => \A q \in Query :
                HasStatus(api[q].hash, {"decrypted", "finalised"}) /\ api'[q].pc # api[q].pc
                    => \/ api'[q].pc \in {"check", "decrypt"}
                       \/ api'[q].pc = IF Opens(q) THEN "plain" ELSE "refused"
    <2> SUFFICES ASSUME Inductive, DetailedInductive, [DetailedNext]_detailedVars,
                        NEW q \in Query,
                        HasStatus(api[q].hash, {"decrypted", "finalised"}),
                        api'[q].pc # api[q].pc
                 PROVE  \/ api'[q].pc \in {"check", "decrypt"}
                        \/ api'[q].pc = IF Opens(q) THEN "plain" ELSE "refused"
        OBVIOUS
    <2>1. api[q].hash \in DOMAIN txs /\ KeyOf(q) = Word
        BY DEF HasStatus, Inductive, GossipInv, DetailedInductive, KeyWordsInv, KeyOf
    <2> QED
        BY <2>1, WholeKeyStep DEF DetailedInductive
<1> QED
    BY <1>1, DetailedInvariantHolds, DetailedKeepsInductive, PTL
    DEF DetailedSpec, DecryptedIsAnswered

\* With all its goroutines in detail the sequencer still does what TxLifecycle
\* promises.
THEOREM DetailedImplementsTxLifecycle == DetailedSpec => ImplementsTxLifecycle
BY DetailedImplementsSequencer, SequencerImplementsTxLifecycle, PTL DEF ImplementsSequencer

\* And so do the properties of Sequencer hold, for the receivers and the builders
\* beside it.
THEOREM DetailedIsSafe ==
    DetailedSpec =>
        /\ [](NoStrandedBid /\ GossipedNeverRebid /\ ReplyIsKept /\ CommittedWithinWindow)
        /\ [](FinalisedIsOnChain /\ EonIsNotPast /\ KeyIsFollowed /\ PromisesHold)
        /\ CommittedIsKept /\ KeyIsHandled /\ PassesEnd /\ PromisesStand
<1>1. Spec =>
        /\ [](NoStrandedBid /\ GossipedNeverRebid /\ ReplyIsKept /\ CommittedWithinWindow)
        /\ [](FinalisedIsOnChain /\ EonIsNotPast /\ KeyIsFollowed /\ PromisesHold)
    BY BidsComeBack, GossipIsHonoured, RepliesAreKept, WindowsAreKept, VerifierIsRight,
       EonsAreNotPast, KeysAreFollowed, PromisesAreHeld, PTL
<1>2. Spec => CommittedIsKept /\ KeyIsHandled /\ PassesEnd /\ PromisesStand
    BY CommitmentsAreKept, KeysAreHandled, PassesComeToAnEnd, PromisesAreKept
<1> QED
    BY <1>1, <1>2, DetailedImplementsSequencer, PTL DEF ImplementsSequencer

=============================================================================
