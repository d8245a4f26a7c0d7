------------------------- MODULE DetailedInvariant -------------------------
(***************************************************************************)
(* The inductive invariant behind the safety properties of                 *)
(* DetailedSequencer, relative to Inductive, which it has as an            *)
(* implementation of Sequencer.                                            *)
(***************************************************************************)
EXTENDS DetailedSequencer, SequencerInvariant

\* What the receivers and the channels hold.
ChannelInv ==
    \A c \in Call :
        /\ calls[c].receiver = "none" <=> calls[c].outcome = "none"
        /\ calls[c].outcome = "none" => calls[c].received = {}
        /\ calls[c].receiver # "handing" => calls[c].inHand = {}
        /\ \A p \in calls[c].inHand : calls[c].inHand = {p}
        /\ calls[c].error # "none" => calls[c].receiver \in {"closing", "done"}
        /\ calls[c].closed => calls[c].receiver = "done"

\* The loop makes one call at a time, and its bid is on the stream only while that
\* call is open: the loop is never left at a select whose receiver is not there.
OneOpen ==
    /\ \A c, d \in Call : IsOpen(c) /\ IsOpen(d) => c = d
    /\ bidder.pc = "stream" => \E c \in Call : IsOpen(c)

\* The words of a key that are written, and those each worker has written.
KeyWordsInv ==
    /\ \A h \in Hash :
          slice[h] # {} => h \in DOMAIN txs /\ txs[h].identity \in gossip
    /\ \A h \in DOMAIN txs : txs[h].decryptionKey => slice[h] = Word
    /\ \A w \in Worker : \A h \in writer[w].hash :
          /\ writer[w].hash = {h}
          /\ writer[w].words \subseteq slice[h]
          /\ h \in DOMAIN txs
          /\ txs[h].identity \in keyh[w].keys

\* What the queries have seen of a key.
QueryInv ==
    \A q \in Query :
        /\ api[q].pc \in {"check", "decrypt", "plain"} => api[q].hash \in DOMAIN txs
        /\ api[q].pc \in {"decrypt", "plain"} => "length" \in slice[api[q].hash]
        /\ api[q].pc = "plain" => "pointer" \in slice[api[q].hash]

DetailedInductive ==
    /\ DetailedTypeOK
    /\ ChannelInv
    /\ OneOpen
    /\ StreamIsRecorded
    /\ NothingLeftBehind
    /\ KeyWordsInv
    /\ QueryInv

=============================================================================
