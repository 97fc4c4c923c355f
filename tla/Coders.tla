-------------------------------- MODULE Coders ---------------------------------
(***************************************************************************)
(* The encoder and the decoder of a Codec through its calls: every step of *)
(* Codec, with what it makes and destroys of them, and the frames that     *)
(* AudioInputCallback encodes.  A coder is told by the call that made its  *)
(* state.  It is the settings of the call that choose the coders, to make, *)
(* to use and to destroy them, and connectToHost alone sets them.          *)
(***************************************************************************)
EXTENDS Codec

CONSTANTS
    MaxBlocks,  \* bound: frames lame has ready at a time
    MaxSent     \* bound: packets of a call

VARIABLES
    sends,      \* codec_settings.format(Transmit)
    receives,   \* codec_settings.format(Receive)
    encoders,   \* encoders[f]: the call that made f's encoder, 0 if there is none
    decoders,   \* decoders[f]: the same of the decoder
    sent        \* codec_transmit_packets, which the header's numbers go along with

coders == <<sends, receives, encoders, decoders>>
codersVars == <<vars, coders, sent>>

Formats == {"Layer3", "Speex", "Vorbis"}

CodersInit ==
    /\ Init
    /\ sends \in Formats /\ receives \in Formats
    /\ encoders = [f \in Formats |-> 0]
    /\ decoders = [f \in Formats |-> 0]
    /\ sent = 0

-----------------------------------------------------------------------------
InitLayer3Encoder(call) == [encoders EXCEPT !["Layer3"] = call]
InitSpeexEncoder(call) == [encoders EXCEPT !["Speex"] = call]
InitVorbisEncoder(call) == [encoders EXCEPT !["Vorbis"] = call]
InitEncoder(f, call) ==
    CASE f = "Layer3" -> InitLayer3Encoder(call)
      [] f = "Speex" -> InitSpeexEncoder(call)
      [] f = "Vorbis" -> InitVorbisEncoder(call)

InitLayer3Decoder(call) == [decoders EXCEPT !["Layer3"] = call]
InitSpeexDecoder(call) == [decoders EXCEPT !["Speex"] = call]
InitVorbisDecoder(call) == [decoders EXCEPT !["Vorbis"] = call]   \* without its codebook yet
InitDecoder(f, call) ==
    CASE f = "Layer3" -> InitLayer3Decoder(call)
      [] f = "Speex" -> InitSpeexDecoder(call)
      [] f = "Vorbis" -> InitVorbisDecoder(call)

FreeLayer3Encoder(made) == made   \* the code to close lame is left out by a misspelt name
FreeSpeexEncoder(made) == [made EXCEPT !["Speex"] = 0]
FreeVorbisEncoder(made) == [made EXCEPT !["Vorbis"] = 0]
FreeEncoder(made) ==
    CASE sends' = "Layer3" -> FreeLayer3Encoder(made)
      [] sends' = "Speex" -> FreeSpeexEncoder(made)
      [] sends' = "Vorbis" -> FreeVorbisEncoder(made)

FreeCoders(made, unmade) ==
    /\ encoders' = FreeEncoder(made)
    /\ decoders' = [unmade EXCEPT ![receives'] = 0]

Settings(s, r) == sends' = s /\ receives' = r /\ sent' = 0
SameSettings == UNCHANGED <<sends, receives, sent>>

\* InitSockets, SetDestinationAddress or InitAudioInterface fails
ConnectFailsFreeing(s, r) ==
    /\ ConnectFails(r = "Vorbis")
    /\ Settings(s, r)
    /\ FreeCoders(InitEncoder(s, calls'), InitDecoder(r, calls'))

ConnectToHostCoding(s, r) ==
    /\ ConnectToHost(r = "Vorbis")
    /\ Settings(s, r)
    /\ encoders' = InitEncoder(s, calls')
    /\ decoders' = InitDecoder(r, calls')

InputFailsFreeing ==
    /\ InputFails
    /\ SameSettings
    /\ FreeCoders(encoders, decoders)

\* Mutant: the encoder goes before the streams have stopped
DisconnectFreeing ==
    /\ Disconnect \/ TimeoutData
    /\ SameSettings
    /\ encoders' = FreeEncoder(encoders) /\ UNCHANGED decoders

DisconnectCoding == (Disconnect \/ TimeoutData) /\ UNCHANGED <<coders, sent>>

\* disconnect, once the streams have stopped; nobody frees the decoder
FinishDisconnectFreeing ==
    /\ FinishDisconnect
    /\ SameSettings
    /\ encoders' = FreeEncoder(encoders) /\ UNCHANGED decoders

\* EncodeFrame: the packets it writes a header for, and counts.  Of lame's frame blocks
\* there may be none in what it has ready, or several, of which only the last leaves in
\* this callback; if there is none, nothing or garbage leaves: the length is not set
Layer3Blocks == 0..MaxBlocks
Layer3Packets == {0} \union Layer3Blocks   \* 0: lame fails
SpeexPackets == {1}
VorbisPackets == {0}   \* its code is left out by a misspelt name
EncodeFrame ==
    CASE sends = "Layer3" -> Layer3Packets
      [] sends = "Speex" -> SpeexPackets
      [] sends = "Vorbis" -> VorbisPackets

AudioInputCallback ==
    /\ recording /\ ~loopback
    /\ \E n \in EncodeFrame : sent + n <= MaxSent /\ sent' = sent + n
    /\ UNCHANGED <<vars, coders>>

CodersNext ==
    \/ \E s, r \in Formats : ConnectFailsFreeing(s, r) \/ ConnectToHostCoding(s, r)
    \/ InputFailsFreeing \/ DisconnectCoding \/ FinishDisconnectFreeing
    \/ /\ \/ InputOpens
          \/ MeterData \/ MeterState \/ MeterTimer \/ MeterSave
          \/ SetCodebook \/ SetLoopback
          \/ LoopBack \/ AudioOutputCallback \/ PacketArrives
       /\ UNCHANGED <<coders, sent>>
    \/ AudioInputCallback

CodersSpec == CodersInit /\ [][CodersNext]_codersVars /\ Fairness

-----------------------------------------------------------------------------
\* From the start of the output stream until disconnect has stopped both, the coders of
\* the settings the callbacks read are the ones this call has made, and not destroyed
\* yet: no callback goes to a dead coder, on no way out of a call, and none is destroyed
\* twice.
CodersReady == state # "Idle" => encoders[sends] = calls /\ decoders[receives] = calls
=============================================================================
