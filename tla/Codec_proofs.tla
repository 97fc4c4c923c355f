----------------------------- MODULE Codec_proofs -----------------------------
(***************************************************************************)
(* What holds of Codec and Coders for every set point, ring, number of      *)
(* calls and of packets: the callbacks of the audio thread, and the slots   *)
(* of the report timers, find the sockets, the header and the destination   *)
(* they use, and nothing of a call outlives it but the timeout timer.       *)
(* Coders is a Codec, and no callback goes to a coder that is not there.    *)
(***************************************************************************)
EXTENDS Coders, TLAPS

\* Where in a call each phase falls, and what has been set up by then.
PhasesInOrder ==
    /\ state = "Idle" => Resting
    /\ phase = "opening" => ~recording /\ ~metering /\ ~lockState
    /\ phase = "stopping" => ~metering /\ ~lockState
    /\ state # "Idle" => sockets /\ header /\ dest

Inv == PointersAreGood /\ OnlyTimeoutRunsOn /\ PhasesInOrder

LEMMA InvInit == Init => Inv
BY DEF Init, Inv, PointersAreGood, OnlyTimeoutRunsOn, PhasesInOrder, Resting

\* The slots that set a call up, and those that take it down.
LEMMA SetupStep ==
    ASSUME Inv,
           \/ \E isVorbis \in BOOLEAN : ConnectFails(isVorbis) \/ ConnectToHost(isVorbis)
           \/ InputOpens \/ InputFails
           \/ Disconnect \/ FinishDisconnect \/ TimeoutData
    PROVE  Inv'
<1> USE DEF Inv, PointersAreGood, OnlyTimeoutRunsOn, PhasesInOrder, Resting, FreeSockets
<1>1. CASE \E isVorbis \in BOOLEAN : ConnectFails(isVorbis)
  BY <1>1 DEF ConnectFails, streams, lock
<1>2. CASE \E isVorbis \in BOOLEAN : ConnectToHost(isVorbis)
  BY <1>2 DEF ConnectToHost, lock
<1>3. CASE InputOpens
  BY <1>3 DEF InputOpens, setup, lock
<1>4. CASE InputFails
  BY <1>4 DEF InputFails, lock
<1>5. CASE Disconnect
  BY <1>5 DEF Disconnect, StartDisconnect, setup, streams, audio
<1>6. CASE FinishDisconnect
  BY <1>6 DEF FinishDisconnect
<1>7. CASE TimeoutData
  BY <1>7 DEF TimeoutData, StartDisconnect, setup, streams, audio, lock
<1> QED BY <1>1, <1>2, <1>3, <1>4, <1>5, <1>6, <1>7

\* Everything else leaves the sockets, the streams and the meters as they are.
LEMMA RunningStep ==
    ASSUME Inv,
           \/ MeterData \/ MeterState \/ MeterTimer \/ MeterSave
           \/ SetCodebook \/ SetLoopback
           \/ LoopBack \/ AudioOutputCallback \/ PacketArrives
           \/ UNCHANGED vars
    PROVE  Inv'
<1> USE DEF Inv, PointersAreGood, OnlyTimeoutRunsOn, PhasesInOrder, Resting
<1>1. CASE MeterData
  BY <1>1 DEF MeterData, setup, streams, lock, audio
<1>2. CASE MeterState
  BY <1>2 DEF MeterState, setup, streams, lock, audio
<1>3. CASE MeterTimer \/ MeterSave
  BY <1>3 DEF MeterTimer, MeterSave, setup, streams, lock, audio
<1>4. CASE \/ SetCodebook \/ SetLoopback \/ LoopBack \/ AudioOutputCallback
           \/ PacketArrives \/ UNCHANGED vars
  BY <1>4 DEF SetCodebook, SetLoopback, LoopBack, AudioOutputCallback, PacketArrives,
              vars, setup, streams, lock, audio
<1> QED BY <1>1, <1>2, <1>3, <1>4

LEMMA InvStep == Inv /\ [Next]_vars => Inv'
BY SetupStep, RunningStep DEF Next, Main

\* No callback of the audio thread, and no slot of a report timer, ever follows one of
\* the codec's pointers after it was freed or before it was set.
THEOREM PointersAlwaysGood == Spec => []PointersAreGood
<1>1. Inv => PointersAreGood
  BY DEF Inv
<1> QED BY InvInit, InvStep, <1>1, PTL DEF Spec

\* A call that has ended, or has failed to begin, leaves no stream, socket or packet, no
\* report or meter timer, and no lock its meter has seen.  Of the timeout timer, which
\* disconnect does not stop, nothing is said.
THEOREM OnlyTimeoutEverRunsOn == Spec => []OnlyTimeoutRunsOn
<1>1. Inv => OnlyTimeoutRunsOn
  BY DEF Inv
<1> QED BY InvInit, InvStep, <1>1, PTL DEF Spec
-----------------------------------------------------------------------------
\* The flags one by one, and the rest
Flags ==
    /\ sockets \in BOOLEAN /\ reports \in BOOLEAN /\ header \in BOOLEAN /\ dest \in BOOLEAN
    /\ playing \in BOOLEAN /\ recording \in BOOLEAN /\ metering \in BOOLEAN
    /\ locked \in BOOLEAN /\ lockState \in BOOLEAN /\ timer \in BOOLEAN
    /\ vorbis \in BOOLEAN /\ loopback \in BOOLEAN

Amounts ==
    /\ phase \in {"rest", "opening", "stopping", "metering", "timing", "saving"}
    /\ state \in {"Idle", "Connecting", "Connected"}
    /\ calls \in 0..MaxCalls
    /\ inbox \in 0..InboxMax
    /\ ring \in 0..RingMax
    /\ decoder \in 0..MaxCalls

LEMMA TypesAre == TypeOK <=> Flags /\ Amounts
BY DEF TypeOK, Flags, Amounts

\* What has been decoded fits the ring
LEMMA DecodedFits ==
    ASSUME Amounts, NEW n \in Decoded
    PROVE  n \in 0..RingMax
BY CodecAssumption DEF Amounts, Decoded

LEMMA FlagsStep == Flags /\ [Next]_vars => Flags'
<1> SUFFICES ASSUME Flags, [Next]_vars
             PROVE  Flags'
  OBVIOUS
<1> USE DEF Flags, FreeSockets, setup, streams, lock
<1>1. CASE \E isVorbis \in BOOLEAN : ConnectFails(isVorbis)
  BY <1>1, Zenon DEF ConnectFails
<1>2. CASE \E isVorbis \in BOOLEAN : ConnectToHost(isVorbis)
  BY <1>2, Zenon DEF ConnectToHost
<1>3. CASE InputOpens
  BY <1>3, Zenon DEF InputOpens, format
<1>4. CASE InputFails
  BY <1>4, Zenon DEF InputFails
<1>5. CASE Disconnect
  BY <1>5, Zenon DEF Disconnect, StartDisconnect, format
<1>6. CASE FinishDisconnect
  BY <1>6, Zenon DEF FinishDisconnect, format
<1>7. CASE TimeoutData
  BY <1>7, Zenon DEF TimeoutData, StartDisconnect, format
<1>8. CASE MeterData
  BY <1>8, Zenon DEF MeterData, format
<1>9. CASE MeterState
  BY <1>9, Zenon DEF MeterState, format
<1>10. CASE MeterTimer
  BY <1>10, Zenon DEF MeterTimer, format
<1>11. CASE MeterSave
  BY <1>11, Zenon DEF MeterSave, format
<1>12. CASE SetCodebook
  BY <1>12, Zenon DEF SetCodebook
<1>13. CASE SetLoopback
  BY <1>13, Zenon DEF SetLoopback, format
<1>14. CASE LoopBack
  BY <1>14, Zenon DEF LoopBack, format
<1>15. CASE AudioOutputCallback
  BY <1>15, Zenon DEF AudioOutputCallback, format
<1>16. CASE PacketArrives
  BY <1>16, Zenon DEF PacketArrives, format
<1>17. CASE UNCHANGED vars
  BY <1>17, Zenon DEF vars, format
<1> QED
  BY <1>1, <1>2, <1>3, <1>4, <1>5, <1>6, <1>7, <1>8, <1>9, <1>10, <1>11, <1>12, <1>13,
     <1>14, <1>15, <1>16, <1>17 DEF Next, Main

LEMMA AmountsStep == Amounts /\ [Next]_vars => Amounts'
<1> SUFFICES ASSUME Amounts, [Next]_vars
             PROVE  Amounts'
  OBVIOUS
<1> USE CodecAssumption DEF Amounts, FreeSockets, FreeDecoder, audio, format
<1>1. CASE \E isVorbis \in BOOLEAN : ConnectFails(isVorbis) \/ ConnectToHost(isVorbis)
  BY <1>1 DEF ConnectFails, ConnectToHost
<1>2. CASE InputOpens \/ InputFails
  BY <1>2 DEF InputOpens, InputFails
<1>3. CASE Disconnect \/ FinishDisconnect \/ TimeoutData
  BY <1>3 DEF Disconnect, FinishDisconnect, TimeoutData, StartDisconnect
<1>4. CASE MeterData \/ MeterState \/ MeterTimer \/ MeterSave
  BY <1>4 DEF MeterData, MeterState, MeterTimer, MeterSave
<1>5. CASE SetCodebook \/ SetLoopback
  BY <1>5 DEF SetCodebook, SetLoopback
<1>6. CASE LoopBack \/ PacketArrives
  BY <1>6 DEF LoopBack, PacketArrives
<1>7. CASE AudioOutputCallback
  <2>1. PICK n \in Decoded : \/ ring' = n
                             \/ n > 0 /\ ring' = n - 1
                             \/ ring' = 0
    BY <1>7 DEF AudioOutputCallback
  <2>2. ring' \in 0..RingMax
    BY <2>1, DecodedFits
  <2> QED
    BY <1>7, <2>2 DEF AudioOutputCallback
<1>8. CASE UNCHANGED vars
  BY <1>8 DEF vars
<1> QED
  BY <1>1, <1>2, <1>3, <1>4, <1>5, <1>6, <1>7, <1>8 DEF Next, Main

\* The ring never holds more than it was made for, and the decoder is that of some call.
THEOREM CodecTypeCorrect == Spec => []TypeOK
<1>1. Init => Flags /\ Amounts
  <2>1. Init => Flags
    BY Zenon DEF Init, Flags
  <2>2. Init => Amounts
    BY CodecAssumption DEF Init, Amounts
  <2> QED
    BY <2>1, <2>2
<1> QED
  BY <1>1, FlagsStep, AmountsStep, TypesAre, PTL DEF Spec

-----------------------------------------------------------------------------
(***************************************************************************)
(* The codec with its coders.                                              *)
(***************************************************************************)
\* The coders are those of the formats, made by calls
CodersTyped ==
    /\ calls \in Nat
    /\ sends \in Formats /\ receives \in Formats
    /\ encoders \in [Formats -> Nat] /\ decoders \in [Formats -> Nat]

CodersInv == CodersTyped /\ CodersReady

-----------------------------------------------------------------------------
LEMMA CodersNextIsNext == [CodersNext]_codersVars => [Next]_vars
<1>1. CASE \E s, r \in Formats : ConnectFailsFreeing(s, r) \/ ConnectToHostCoding(s, r)
  BY <1>1 DEF ConnectFailsFreeing, ConnectToHostCoding, Next, Main
<1>2. CASE InputFailsFreeing \/ DisconnectCoding \/ FinishDisconnectFreeing
  BY <1>2 DEF InputFailsFreeing, DisconnectCoding, FinishDisconnectFreeing, Next, Main
<1>3. CASE \/ InputOpens
           \/ MeterData \/ MeterState \/ MeterTimer \/ MeterSave
           \/ SetCodebook \/ SetLoopback
           \/ LoopBack \/ AudioOutputCallback \/ PacketArrives
  BY <1>3 DEF Next, Main
<1>4. CASE AudioInputCallback \/ UNCHANGED codersVars
  BY <1>4 DEF AudioInputCallback, codersVars
<1> QED
  BY <1>1, <1>2, <1>3, <1>4 DEF CodersNext

\* The codec with its coders is a codec: with what they make and destroy, no slot and
\* no callback does anything to the sockets, the streams or the lock that Codec does not.
THEOREM CodersRunACodec == CodersSpec => Spec
<1>1. CodersInit => Init
  BY DEF CodersInit
<1> QED
  BY <1>1, CodersNextIsNext, PTL DEF CodersSpec, Spec

-----------------------------------------------------------------------------
LEMMA InitEncoderIs ==
    ASSUME CodersTyped, NEW f \in Formats, NEW call \in Nat
    PROVE  InitEncoder(f, call) \in [Formats -> Nat] /\ InitEncoder(f, call)[f] = call
BY DEF CodersTyped, Formats, InitEncoder, InitLayer3Encoder, InitSpeexEncoder,
       InitVorbisEncoder

LEMMA InitDecoderIs ==
    ASSUME CodersTyped, NEW f \in Formats, NEW call \in Nat
    PROVE  InitDecoder(f, call) \in [Formats -> Nat] /\ InitDecoder(f, call)[f] = call
BY DEF CodersTyped, Formats, InitDecoder, InitLayer3Decoder, InitSpeexDecoder,
       InitVorbisDecoder

LEMMA FreeEncoderIs ==
    ASSUME NEW made \in [Formats -> Nat], sends' \in Formats
    PROVE  FreeEncoder(made) \in [Formats -> Nat]
BY DEF Formats, FreeEncoder, FreeLayer3Encoder, FreeSpeexEncoder, FreeVorbisEncoder

LEMMA FreeCodersIs ==
    ASSUME NEW made \in [Formats -> Nat], NEW unmade \in [Formats -> Nat],
           sends' \in Formats, receives' \in Formats, FreeCoders(made, unmade)
    PROVE  encoders' \in [Formats -> Nat] /\ decoders' \in [Formats -> Nat]
BY FreeEncoderIs DEF FreeCoders

\* connectToHost: both coders are this call's, or the codec is idle again
LEMMA ConnectStep ==
    ASSUME CodersInv, NEW s \in Formats, NEW r \in Formats,
           ConnectFailsFreeing(s, r) \/ ConnectToHostCoding(s, r) \/ InputFailsFreeing
    PROVE  CodersInv'
<1> USE DEF CodersInv, CodersReady
<1>1. CASE ConnectFailsFreeing(s, r)
  <2>1. /\ calls' = calls + 1 /\ state = "Idle" /\ state' = state
        /\ sends' = s /\ receives' = r
        /\ FreeCoders(InitEncoder(s, calls'), InitDecoder(r, calls'))
    BY <1>1 DEF ConnectFailsFreeing, ConnectFails, Settings
  <2>2. calls' \in Nat
    BY <2>1 DEF CodersTyped
  <2>3. encoders' \in [Formats -> Nat] /\ decoders' \in [Formats -> Nat]
    BY <2>1, <2>2, InitEncoderIs, InitDecoderIs, FreeCodersIs
  <2> QED
    BY <2>1, <2>2, <2>3 DEF CodersTyped
<1>2. CASE ConnectToHostCoding(s, r)
  <2>1. /\ calls' = calls + 1
        /\ sends' = s /\ receives' = r
        /\ encoders' = InitEncoder(s, calls') /\ decoders' = InitDecoder(r, calls')
    BY <1>2 DEF ConnectToHostCoding, ConnectToHost, Settings
  <2>2. calls' \in Nat
    BY <2>1 DEF CodersTyped
  <2> QED
    BY <2>1, <2>2, InitEncoderIs, InitDecoderIs DEF CodersTyped
<1>3. CASE InputFailsFreeing
  <2>1. /\ calls' = calls /\ state' = "Idle"
        /\ sends' = sends /\ receives' = receives
        /\ FreeCoders(encoders, decoders)
    BY <1>3 DEF InputFailsFreeing, InputFails, SameSettings
  <2>2. encoders' \in [Formats -> Nat] /\ decoders' \in [Formats -> Nat]
    BY <2>1, FreeCodersIs DEF CodersTyped
  <2> QED
    BY <2>1, <2>2 DEF CodersTyped
<1> QED
  BY <1>1, <1>2, <1>3

\* disconnect: the encoder goes with the last step, which is the one to Idle
LEMMA DisconnectStep ==
    ASSUME CodersInv, DisconnectCoding \/ FinishDisconnectFreeing
    PROVE  CodersInv'
<1> USE DEF CodersInv, CodersReady
<1>1. CASE DisconnectCoding
  BY <1>1 DEF DisconnectCoding, Disconnect, TimeoutData, coders, CodersTyped
<1>2. CASE FinishDisconnectFreeing
  <2>1. /\ calls' = calls /\ state' = "Idle"
        /\ sends' = sends /\ receives' = receives
        /\ encoders' = FreeEncoder(encoders) /\ decoders' = decoders
    BY <1>2 DEF FinishDisconnectFreeing, FinishDisconnect, SameSettings
  <2> QED
    BY <2>1, FreeEncoderIs DEF CodersTyped
<1> QED
  BY <1>1, <1>2

\* Nothing else touches a coder, begins a call or leaves Idle
LEMMA OtherStep ==
    ASSUME CodersInv,
           \/ /\ \/ InputOpens
                 \/ MeterData \/ MeterState \/ MeterTimer \/ MeterSave
                 \/ SetCodebook \/ SetLoopback
                 \/ LoopBack \/ AudioOutputCallback \/ PacketArrives
              /\ UNCHANGED <<coders, sent>>
           \/ AudioInputCallback
           \/ UNCHANGED codersVars
    PROVE  CodersInv'
<1>1. calls' = calls /\ (state = "Idle" => state' = "Idle") /\ UNCHANGED coders
  <2>1. CASE InputOpens \/ MeterData \/ MeterState \/ MeterTimer \/ MeterSave
    BY <2>1 DEF InputOpens, MeterData, MeterState, MeterTimer, MeterSave,
                AudioInputCallback, codersVars
  <2>2. CASE SetCodebook \/ SetLoopback \/ LoopBack \/ AudioOutputCallback \/ PacketArrives
    BY <2>2 DEF SetCodebook, SetLoopback, LoopBack, AudioOutputCallback, PacketArrives,
                AudioInputCallback, codersVars
  <2>3. CASE AudioInputCallback \/ UNCHANGED codersVars
    BY <2>3 DEF AudioInputCallback, codersVars, vars
  <2> QED
    BY <2>1, <2>2, <2>3
<1> QED
  BY <1>1 DEF CodersInv, CodersReady, CodersTyped, coders

LEMMA CodersInvStep == CodersInv /\ [CodersNext]_codersVars => CodersInv'
BY ConnectStep, DisconnectStep, OtherStep DEF CodersNext, Formats

\* As long as a call lasts, its streams' callbacks find an encoder and a decoder of the
\* call, whichever formats this and earlier calls had, and however they ended.
THEOREM CodersAlwaysReady == CodersSpec => []CodersReady
<1>1. CodersInit => CodersInv
  BY DEF CodersInit, Init, CodersInv, CodersTyped, CodersReady
<1>2. CodersInv => CodersReady
  BY DEF CodersInv
<1> QED
  BY <1>1, <1>2, CodersInvStep, PTL DEF CodersSpec

\* With its coders, the codec's callbacks still find what they use ...
THEOREM CodersPointersGood == CodersSpec => []PointersAreGood
BY CodersRunACodec, PointersAlwaysGood, PTL

\* ... and a call leaves nothing running but, it may be, the timeout timer.
THEOREM CodersOnlyTimeoutRunsOn == CodersSpec => []OnlyTimeoutRunsOn
BY CodersRunACodec, OnlyTimeoutEverRunsOn, PTL

\* Its ring, its inbox and its flags are those of a codec.
THEOREM CodersTypeCorrect == CodersSpec => []TypeOK
BY CodersRunACodec, CodecTypeCorrect, PTL
=============================================================================
