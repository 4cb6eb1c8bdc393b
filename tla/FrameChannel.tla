---------------------------- MODULE FrameChannel ----------------------------
(***************************************************************************)
(* What slip_tx and slip_rx promise together.  While no byte is lost,      *)
(* slip_rx returns every frame, once, whole, and in the order in which     *)
(* slip_tx sent them.  A lost byte may cost frames, and the seven bits of  *)
(* the checksum may then take something else for a frame; what remains is  *)
(* that no frame is returned twice or behind a later one.  When too many   *)
(* are lost nothing is promised.                                           *)
(***************************************************************************)
EXTENDS Naturals, SequencesExt

CONSTANTS
  Frame,
  Error,           \* what slip_rx returns instead of a frame
  TooMany,         \* lost bytes
  Unnoticed(_)     \* a sequence the checksum takes for a frame

VARIABLES
  sent,            \* frames sent that slip_rx has neither returned nor passed over
  result,          \* what slip_rx returned last
  lost             \* bytes lost so far

channelVars == <<sent, result, lost>>

ChannelInit == sent = <<>> /\ result = Error /\ lost = 0

Send(f) == sent' = Append(sent, f) /\ UNCHANGED <<result, lost>>

Return ==
  /\ sent # <<>>
  /\ result' = Head(sent) /\ sent' = Tail(sent)
  /\ UNCHANGED lost

LoseBytes == lost' > lost /\ UNCHANGED <<sent, result>>

PassOver ==
  /\ lost > 0
  /\ \E i \in DOMAIN sent : result' = sent[i] /\ sent' = SubSeq(sent, i + 1, Len(sent))
  /\ UNCHANGED lost

Fail == lost > 0 /\ result' = Error /\ UNCHANGED <<sent, lost>>

Mistake == lost > 0 /\ Unnoticed(result') /\ UNCHANGED <<sent, lost>>

BreakDown == lost' >= TooMany

ChannelNext ==
  \/ Return \/ LoseBytes \/ PassOver \/ Fail \/ Mistake \/ BreakDown
  \/ \E f \in Frame : Send(f)

ChannelSpec == ChannelInit /\ [][ChannelNext]_channelVars

=============================================================================
