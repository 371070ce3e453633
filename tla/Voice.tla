--------------------------------- MODULE Voice ---------------------------------
(***************************************************************************)
(* Speech to text and back.  A take is recorded into /voice.wav while G0   *)
(* is held (voice_input.cpp), sent to the transcription service            *)
(* (stt_client.cpp) and its text added to the draft (VoiceAndSpeech.ino).  *)
(* A document is spoken chunk by chunk and segment by segment: each is     *)
(* synthesised into /tts.pcm and played from there (tts_client.cpp)        *)
(* through three buffers, of which the speaker's task holds two: the one   *)
(* it plays and the one after it.                                          *)
(*                                                                         *)
(* A recording is a number of samples, the audio of a segment is Pieces    *)
(* buffers long.  Services and Wi-Fi may fail at any time; what the card,  *)
(* the codec or the speaker refuse is bounded by MaxFaults.                *)
(***************************************************************************)
EXTENDS Naturals, Sequences

CONSTANTS
  MinSamples, MaxSamples,  \* kMinimumSamples, kMaximumSamples
  Pieces,
  Documents,               \* of each chunk, the number of segments it is spoken in
  MaxAttempts,             \* kMaximumAttempts
  MaxTakes, MaxFaults, MaxResets

VARIABLES
  pc,        \* where the program is
  ready,     \* voiceStorageReady
  valid,     \* sttCredentialsValidated
  attempt,
  wav,       \* /voice.wav
  takes,     \* history: how much was said in each take
  reply,     \* what the text of the reply is the text of
  draft,     \* what was added to inputBuffer
  kept,      \* history: the card kept a recording it should not have
  doc, chunk, segment,   \* what is spoken, and how far
  pcm,       \* /tts.pcm
  pos,       \* the next piece to be read from it
  ring,      \* playbackBuffers
  next,      \* bufferIndex
  queue,     \* the buffers that the speaker holds
  heard,     \* history: what has come out of it
  told,      \* what the user was told of the last operation
  left

voice == <<ready, valid, wav, takes, reply, draft, kept>>
place == <<doc, chunk, segment>>
sound == <<ring, next, queue, heard>>
vars == <<pc, attempt, voice, place, pcm, pos, sound, told, left>>

NoFile == [take |-> 0, samples |-> 0, final |-> FALSE]
Piece == {<<c, s, i>> : c \in 1..4, s \in 1..4, i \in 1..Pieces}

\* What is to be heard of document d: the pieces of each segment of a chunk, from
\* the first one on; what follows piece p, and whether there is such a piece.
After(d, p) ==
  IF p[3] < Pieces THEN <<p[1], p[2], p[3] + 1>>
  ELSE IF p[2] < d[p[1]] THEN <<p[1], p[2] + 1, 1>> ELSE <<p[1] + 1, 1, 1>>
IsPieceOf(d, p) == p[1] \in 1..Len(d) /\ p[2] \in 1..d[p[1]] /\ p[3] \in 1..Pieces

TypeOK ==
  /\ pc \in {"boot", "idle", "power", "mic", "check", "send", "insert", "discard",
             "chunk", "fetch", "post", "stream", "play", "queue", "paused", "cleanup"}
  /\ attempt \in 1..MaxAttempts
  /\ wav \in [take : 0..MaxTakes, samples : 0..MaxSamples, final : BOOLEAN]
  /\ pcm \in Seq(Piece) /\ ring \in [0..2 -> Piece \cup {<<>>}] /\ next \in 0..2
  /\ queue \in Seq(0..2) /\ heard \in Seq(Piece \cup {<<>>})
  /\ told \in {"none", "failed", "canceled", "stopped", "text", "spoken"}

Init ==
  /\ pc = "boot" /\ attempt = 1 /\ ready = FALSE /\ valid = FALSE
  /\ wav = NoFile /\ takes = <<>> /\ reply = NoFile /\ draft = <<>> /\ kept = FALSE
  /\ doc = <<>> /\ chunk = 1 /\ segment = 1
  /\ pcm = <<>> /\ pos = 1 /\ ring = [b \in 0..2 |-> <<>>] /\ next = 0
  /\ queue = <<>> /\ heard = <<>> /\ told = "none"
  /\ left = [faults |-> MaxFaults, resets |-> MaxResets]

Fault == left.faults > 0 /\ left' = [left EXCEPT !.faults = @ - 1]
Goto(where) == pc' = where /\ UNCHANGED left
End(word) == pc' = "idle" /\ told' = word

\* initializeVoiceStorage: no recording survives, unless the card is full.
Boot ==
  /\ pc = "boot"
  /\ \/ ready' = TRUE /\ wav' = NoFile /\ UNCHANGED kept /\ Goto("idle")
     \/ /\ Fault /\ pc' = "idle" /\ ready' \in BOOLEAN /\ UNCHANGED wav
        /\ kept' = (kept \/ wav # NoFile)
  /\ UNCHANGED <<valid, attempt, takes, reply, draft, place, pcm, pos, sound, told>>

Reset ==
  /\ pc # "boot" /\ left.resets > 0 /\ left' = [left EXCEPT !.resets = @ - 1]
  /\ pc' = "boot" /\ ready' = FALSE /\ valid' = FALSE /\ attempt' = 1
  /\ draft' = <<>> /\ reply' = NoFile /\ told' = "none"
  /\ doc' = <<>> /\ chunk' = 1 /\ segment' = 1 /\ pos' = 1
  /\ ring' = [b \in 0..2 |-> <<>>] /\ next' = 0 /\ queue' = <<>> /\ heard' = <<>>
  /\ UNCHANGED <<wav, takes, kept, pcm>>

-----------------------------------------------------------------------------
(* From speech to text.                                                    *)

\* What was spoken before is of no interest any more.
Forget ==
  /\ doc' = <<>> /\ chunk' = 1 /\ segment' = 1 /\ heard' = <<>>
  /\ UNCHANGED <<ring, next, queue>>

\* recordVoiceWhileButtonHeld: what was left is removed and a header reserved.
Hold ==
  /\ pc = "idle" /\ ready /\ Len(takes) < MaxTakes
  /\ takes' = Append(takes, 0)
  /\ wav' = [take |-> Len(takes'), samples |-> 0, final |-> FALSE]
  /\ attempt' = 1 /\ told' = "none" /\ Goto("power") /\ Forget
  /\ UNCHANGED <<ready, valid, reply, draft, kept, pcm, pos>>

\* The card is full, or does not remove the old file or create the new one.
HoldRefused ==
  /\ pc = "idle" /\ ready /\ Fault /\ End("failed")
  /\ wav' \in {wav, NoFile} /\ kept' = (kept \/ wav' # NoFile) /\ Forget
  /\ UNCHANGED <<ready, valid, attempt, takes, reply, draft, pcm, pos>>

StartMic ==
  /\ pc = "power" /\ Goto("mic")
  /\ UNCHANGED <<attempt, voice, place, pcm, pos, sound, told>>

\* Codec, microphone or card refuse before, in or after the take.
MicRefused ==
  /\ pc \in {"power", "mic"} /\ Fault /\ pc' = "discard" /\ told' = "failed"
  /\ UNCHANGED <<attempt, voice, place, pcm, pos, sound>>

Record ==
  /\ pc = "mic" /\ wav.samples < MaxSamples
  /\ wav' = [wav EXCEPT !.samples = @ + 1]
  /\ takes' = [takes EXCEPT ![Len(takes)] = @ + 1]
  /\ UNCHANGED <<pc, attempt, ready, valid, reply, draft, kept, place, pcm, pos, sound, told,
                 left>>

\* G0 is released, or the take is as long as it may be.
Release ==
  /\ pc = "mic"
  /\ IF wav.samples < MinSamples
     THEN Goto("discard") /\ told' = "failed" /\ UNCHANGED wav
     ELSE Goto("check") /\ wav' = [wav EXCEPT !.final = TRUE] /\ UNCHANGED told
  /\ UNCHANGED <<attempt, ready, valid, takes, reply, draft, kept, place, pcm, pos, sound>>

Passed ==
  /\ pc = "check" /\ valid' = TRUE /\ attempt' = 1 /\ Goto("send")
  /\ UNCHANGED <<ready, wav, takes, reply, draft, kept, place, pcm, pos, sound, told>>

\* validateSttCredentials, once per start.
NotPassed ==
  /\ pc = "check" /\ ~valid
  /\ \/ attempt < MaxAttempts /\ attempt' = attempt + 1 /\ UNCHANGED <<pc, told, left>>
     \/ Goto("discard") /\ told' = "failed" /\ UNCHANGED attempt
  /\ UNCHANGED <<voice, place, pcm, pos, sound>>

\* uploadVoiceFile, the whole file, and a reply with text.
Transcribe ==
  /\ pc = "send" /\ reply' = wav /\ Goto("insert")
  /\ UNCHANGED <<attempt, ready, valid, wav, takes, draft, kept, place, pcm, pos, sound, told>>

\* The service or the network fail, or Esc is pressed and no longer held when
\* the wait for the next attempt begins: the attempt was all it ended.
TryAgain ==
  /\ pc = "send" /\ attempt < MaxAttempts /\ attempt' = attempt + 1
  /\ UNCHANGED <<pc, voice, place, pcm, pos, sound, told, left>>

NoText ==
  /\ pc = "send" /\ Goto("discard") /\ told' \in {"failed", "canceled"}
  /\ UNCHANGED <<attempt, voice, place, pcm, pos, sound>>

\* handleVoiceInput: the text goes to the end of the draft if it fits.
Insert ==
  /\ pc = "insert" /\ Goto("discard")
  /\ \/ draft' = Append(draft, reply) /\ told' = "text"
     \/ UNCHANGED draft /\ told' = "failed"
  /\ UNCHANGED <<attempt, ready, valid, wav, takes, reply, kept, place, pcm, pos, sound>>

\* removeVoiceRecording
Discard ==
  /\ pc = "discard" /\ wav' = NoFile /\ reply' = NoFile /\ attempt' = 1 /\ Goto("idle")
  /\ UNCHANGED <<ready, valid, takes, draft, kept, place, pcm, pos, sound, told>>

DiscardRefused ==
  /\ pc = "discard" /\ Fault /\ kept' = TRUE /\ reply' = NoFile /\ attempt' = 1
  /\ End(IF told = "text" THEN "failed" ELSE told)
  /\ UNCHANGED <<ready, valid, wav, takes, draft, place, pcm, pos, sound>>

-----------------------------------------------------------------------------
(* From text to speech.                                                    *)

\* An answer is one segment; a page of a document or all of it may be more.
Speak ==
  /\ pc = "idle" /\ \E d \in Documents : doc' = d
  /\ chunk' = 1 /\ segment' = 1 /\ heard' = <<>> /\ told' = "none" /\ Goto("chunk")
  /\ UNCHANGED <<attempt, voice, pcm, pos, ring, next, queue>>

\* speakEntireDocument: what there is nothing to speak in ends the reading.
ReadChunk ==
  /\ pc = "chunk" /\ attempt' = 1 /\ segment' = 1 /\ UNCHANGED left
  /\ IF doc[chunk] = 0 THEN End("failed") ELSE pc' = "fetch" /\ UNCHANGED told
  /\ UNCHANGED <<voice, doc, chunk, pcm, pos, sound>>

\* The file of the document, /tts.pcm or a buffer of it cannot be had.
SpeechRefused ==
  /\ pc \in {"chunk", "fetch", "post"} /\ Fault /\ End("failed")
  /\ UNCHANGED <<attempt, voice, place, pcm, pos, sound>>

\* downloadSpeech: an attempt begins without the file of the last one.
Fetch ==
  /\ pc = "fetch" /\ pcm' = <<>> /\ Goto("post")
  /\ UNCHANGED <<attempt, voice, place, pos, sound, told>>

Again ==
  /\ UNCHANGED <<left, voice, place, sound>>
  /\ \/ attempt < MaxAttempts /\ attempt' = attempt + 1 /\ pc' = "fetch" /\ UNCHANGED told
     \/ End("failed") /\ UNCHANGED attempt

Post ==
  /\ pc = "post" /\ Goto("stream")
  /\ UNCHANGED <<attempt, voice, place, pcm, pos, sound, told>>

PostFails == pc = "post" /\ Again /\ UNCHANGED <<pcm, pos>>

\* ControlledFileStream: one piece after the other.
Stream ==
  /\ pc = "stream" /\ pos <= Pieces /\ pos' = pos + 1
  /\ pcm' = Append(pcm, <<chunk, segment, pos>>)
  /\ UNCHANGED <<pc, attempt, voice, place, sound, told, left>>

\* The transfer broke, which is tried again, or ended too early, which is not.
StreamBroken == pc = "stream" /\ Again /\ pcm' \in {<<>>, pcm} /\ pos' = 1

Streamed ==
  /\ pc = "stream" /\ pos > Pieces /\ pos' = 1 /\ Goto("play")
  /\ UNCHANGED <<attempt, voice, place, pcm, sound, told>>

\* Esc before an attempt or in the middle of a transfer.
Cancel ==
  /\ pc \in {"fetch", "stream"} /\ pcm' \in {<<>>, pcm} /\ pos' = 1
  /\ End("stopped") /\ UNCHANGED left
  /\ UNCHANGED <<attempt, voice, place, sound>>

\* Mutant: only two buffers.
NextBuffer_OfTwo(b) == (b + 1) % 2

NextBuffer(b) == (b + 1) % 3

\* playPcmFile: the next buffer is filled from the file ...
Fill ==
  /\ pc = "play" /\ pos <= Len(pcm) /\ Goto("queue")
  /\ ring' = [ring EXCEPT ![next] = pcm[pos]] /\ pos' = pos + 1
  /\ UNCHANGED <<attempt, voice, place, pcm, next, queue, heard, told>>

\* ... and handed over, which waits until the speaker has room for it.
Queue ==
  /\ pc = "queue" /\ Len(queue) < 2 /\ Goto("play")
  /\ queue' = Append(queue, next) /\ next' = NextBuffer(next)
  /\ UNCHANGED <<attempt, voice, place, pcm, pos, ring, heard, told>>

\* The task of the speaker has played a buffer.
SpeakerPlays ==
  /\ queue # <<>> /\ heard' = Append(heard, ring[Head(queue)]) /\ queue' = Tail(queue)
  /\ UNCHANGED <<pc, attempt, voice, place, pcm, pos, ring, next, told, left>>

Pause ==
  /\ pc = "play" /\ pos <= Len(pcm) /\ Goto("paused")
  /\ UNCHANGED <<attempt, voice, place, pcm, pos, sound, told>>

Resume ==
  /\ pc = "paused" /\ queue = <<>> /\ Goto("play")
  /\ UNCHANGED <<attempt, voice, place, pcm, pos, sound, told>>

\* Speaker.stop and powerDownCardputerAdvAudio, which ends the speaker.
Silence ==
  /\ queue' = <<>> /\ next' = 0 /\ ring' = [b \in 0..2 |-> <<>>] /\ UNCHANGED heard

StopPlaying ==
  /\ pc = "paused" \/ (pc = "play" /\ (pos <= Len(pcm) \/ queue # <<>>))
  /\ Silence /\ told' = "stopped" /\ Goto("cleanup")
  /\ UNCHANGED <<attempt, voice, place, pcm, pos>>

Played ==
  /\ pc = "play" /\ pos > Len(pcm) /\ queue = <<>>
  /\ Silence /\ Goto("cleanup")
  /\ UNCHANGED <<attempt, voice, place, pcm, pos, told>>

\* Card, speaker or codec refuse, or the speaker does not drain.
PlayRefused ==
  /\ pc \in {"play", "queue", "paused"} /\ Fault /\ pc' = "cleanup" /\ told' = "failed"
  /\ Silence
  /\ UNCHANGED <<attempt, voice, place, pcm, pos>>

\* playDocumentSpeechText and speakEntireDocument go on with what follows.
Continue ==
  CASE told # "none" -> pc' = "idle" /\ UNCHANGED <<told, chunk, segment>>
    [] told = "none" /\ segment < doc[chunk] ->
         pc' = "fetch" /\ segment' = segment + 1 /\ UNCHANGED <<told, chunk>>
    [] told = "none" /\ segment = doc[chunk] /\ chunk < Len(doc) ->
         pc' = "chunk" /\ chunk' = chunk + 1 /\ UNCHANGED <<told, segment>>
    [] OTHER -> End("spoken") /\ UNCHANGED <<chunk, segment>>

Cleanup ==
  /\ pc = "cleanup" /\ pcm' = <<>> /\ pos' = 1 /\ attempt' = 1 /\ Continue
  /\ UNCHANGED <<voice, doc, sound, left>>

CleanupRefused ==
  /\ pc = "cleanup" /\ Fault /\ End(IF told = "none" THEN "failed" ELSE told) /\ pos' = 1
  /\ UNCHANGED <<attempt, voice, place, pcm, sound>>

Next ==
  \/ Boot \/ Reset
  \/ Hold \/ HoldRefused \/ StartMic \/ MicRefused \/ Record \/ Release
  \/ Passed \/ NotPassed \/ Transcribe \/ TryAgain \/ NoText \/ Insert
  \/ Discard \/ DiscardRefused
  \/ Speak \/ ReadChunk \/ SpeechRefused \/ Fetch \/ Post \/ PostFails
  \/ Stream \/ StreamBroken \/ Streamed \/ Cancel
  \/ Fill \/ Queue \/ SpeakerPlays \/ Pause \/ Resume \/ StopPlaying \/ Played \/ PlayRefused
  \/ Cleanup \/ CleanupRefused

Spec == Init /\ [][Next]_vars

-----------------------------------------------------------------------------
\* What comes out of the speaker is the document from its beginning, nothing
\* twice, left out or out of order, whatever was tried again or stopped; all of
\* it when the user is told so; and silence once the operation has ended.
SpeechIsInOrder ==
  /\ \A i \in 1..Len(heard) :
       /\ IsPieceOf(doc, heard[i])
       /\ heard[i] = IF i = 1 THEN <<1, 1, 1>> ELSE After(doc, heard[i - 1])
  /\ told = "spoken" =>
       heard # <<>> /\ After(doc, heard[Len(heard)]) = <<Len(doc) + 1, 1, 1>>
  /\ pc = "idle" => queue = <<>>

\* The draft grows by the text of one whole take at a time, in the order of the
\* takes.
TextIsOfItsTake ==
  /\ \A i \in 1..Len(draft) :
       draft[i].final /\ draft[i].samples = takes[draft[i].take]
  /\ \A i, j \in 1..Len(draft) : i < j => draft[i].take < draft[j].take

\* Nothing that was said stays on the card, unless the card refused to remove it.
NoRecordingIsKept == pc = "idle" /\ wav # NoFile => kept

VoiceIsFaithful == SpeechIsInOrder /\ TextIsOfItsTake /\ NoRecordingIsKept
=============================================================================
