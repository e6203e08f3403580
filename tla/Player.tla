-------------------------------- MODULE Player --------------------------------
(***************************************************************************)
(* The audio player (dcwplay.c): its loop pulls frames out of a WAV or MP3 *)
(* file through the stream buffer, the MPEG frame and the resampler, and   *)
(* writes them into a ring behind the cursor of the sound chip, which      *)
(* plays the ring round and round by itself.                               *)
(*                                                                         *)
(* A frame of the track is its number; what is written to the ring is the  *)
(* pair of frames it is interpolated from and the phase.  An MP3 file is a *)
(* tag and MPEG frames of PER frames each; a WAV file has a chunk behind   *)
(* its data.  Volume, spectrum and seek bar are left out.                  *)
(***************************************************************************)
EXTENDS Integers, Sequences, FiniteSetsExt

CONSTANTS TRACK, PER,   \* frames of the track, and of one MPEG frame
          SBUF,         \* units of the file the stream buffer holds
          MP3_MAXFRAME, \* units below which it is filled again
          ONE, SrcSteps,   \* 1.0 in the phase's fixed point; the steps of the sources' rates
          RING, ALIGN   \* frames of the ring; it is locked in blocks of ALIGN

ASSUME PlayerAssumption ==
  /\ PER \in Nat \ {0} /\ TRACK \in Nat /\ TRACK >= 2 /\ TRACK % PER = 0
  /\ SBUF \in Nat \ {0} /\ MP3_MAXFRAME \in 1..SBUF
  /\ ONE \in Nat \ {0} /\ SrcSteps \subseteq Nat \ {0}
  /\ ALIGN \in Nat \ {0} /\ RING \in Nat \ {0} /\ RING % ALIGN = 0

VARIABLES
  loopAt,         \* where the loop is
  isMp3, step,    \* g_nIsMp3, g_dwRsStep
  hFile, hasBuf,  \* is the file open; is there a sound buffer (g_pBuf)
  dec,            \* the decoder: file, stream buffer, MPEG frame and resampler
  playing, nEof,  \* g_nPlaying, g_nEof
  nPlayed,        \* g_dwPlayed
  ring, writePos, \* the ring and g_dwWritePos
  sounding, playCursor, \* the chip: does it play, and where
  lPlay,          \* the cursor as DsPump read it
  tone,           \* history: what the chip played last
  due,            \* how many outputs it has played since the start or a Stop
  unheard,        \* how many slots written it has not played
  stale,          \* the slots still holding what was there at a Stop
  lost            \* was there a seek, or did the chip overtake the program

track   == <<isMp3, step, hFile, hasBuf>>
chip    == <<sounding, playCursor>>
playerHistory == <<tone, due, unheard, stale, lost>>
playerVars == <<loopAt, track, dec, playing, nEof, nPlayed, ring, writePos, chip, lPlay, playerHistory>>

Silence == <<>>
Slots   == 0..RING - 1

\* The file as units: each a sequence of frames.  0 is no frame of the track.
File == IF isMp3 THEN <<<<>>>> \o [u \in 1..TRACK \div PER |-> [i \in 1..PER |-> PER * (u - 1) + i]]
                 ELSE [i \in 1..TRACK |-> <<i>>] \o <<<<0>>>>

\* DecoderReset: for a WAV file the position is the start of its data.
Rewound == [pos |-> 0, streamPos |-> 0, sbuf |-> <<>>, pcm |-> <<>>,
            cur |-> 0, nxt |-> 0, phase |-> 0, primed |-> FALSE, srcEof |-> FALSE]

PlayerInit ==
  /\ loopAt = "load" /\ isMp3 \in BOOLEAN /\ step \in SrcSteps /\ hFile = FALSE /\ hasBuf = FALSE
  /\ dec = Rewound /\ playing = FALSE /\ nEof = FALSE /\ nPlayed = 0
  /\ ring = [s \in Slots |-> Silence] /\ writePos = 0 /\ sounding = FALSE /\ playCursor = 0
  /\ lPlay = 0 /\ tone = Silence /\ due = 0 /\ unheard = 0 /\ stale = {}
  /\ lost = FALSE
-----------------------------------------------------------------------------
(* The decoder.  d is a value of dec.                                      *)

StreamFill(d) ==
  LET upTo == Min({Len(File), d.pos + SBUF - Len(d.sbuf)})
  IN [d EXCEPT !.sbuf = @ \o SubSeq(File, d.pos + 1, upTo), !.pos = upTo]

\* One turn of SrcNext's loop: another unit, if there is no frame left.
NextUnit(d) ==
  LET e == IF Len(d.sbuf) < (IF isMp3 THEN MP3_MAXFRAME ELSE 1) THEN StreamFill(d) ELSE d
  IN IF d.pcm # <<>> \/ (~isMp3 /\ d.streamPos >= TRACK) THEN d
     ELSE IF e.sbuf = <<>> THEN e
     ELSE [e EXCEPT !.sbuf = Tail(@), !.pcm = Head(e.sbuf), !.streamPos = @ + 1]

\* The loop, which makes no more turns than the file has units.
WithFrame(d) ==
  LET turn[k \in 0..Len(File)] == IF k = 0 THEN d ELSE NextUnit(turn[k - 1])
  IN turn[Len(File)]

\* SrcNext as nxt; when there is no frame, nxt becomes what cur is.
SrcNext(d) ==
  LET e == WithFrame(d)
  IN IF e.pcm = <<>> THEN [e EXCEPT !.nxt = e.cur, !.srcEof = TRUE]
     ELSE [e EXCEPT !.nxt = Head(e.pcm), !.pcm = Tail(@)]

\* The first two frames.  A track of one frame is not at its end yet.
Primed(d) ==
  LET e == SrcNext(d)
  IN IF d.primed \/ e.srcEof THEN [e EXCEPT !.srcEof = e.srcEof \/ d.srcEof]
     ELSE [SrcNext([e EXCEPT !.cur = e.nxt]) EXCEPT !.srcEof = FALSE, !.phase = 0, !.primed = TRUE]

\* The phase goes on by a step, and past as many frames as that makes.
Shifted(d) == SrcNext([d EXCEPT !.cur = d.nxt])
Stepped(d) ==
  LET p == d.phase + step
      turn[k \in 0..p \div ONE] == IF k = 0 THEN d ELSE Shifted(turn[k - 1])
  IN [turn[p \div ONE] EXCEPT !.phase = p % ONE]

\* r is the decoder and the outputs so far.
OneOutput(r) ==
  IF r.d.srcEof THEN r
  ELSE [d |-> Stepped(r.d), out |-> Append(r.out, <<r.d.cur, r.d.nxt, r.d.phase>>)]

\* Mutant: the rest of the MPEG frame is not kept for the next call.
DecodeFresh(max) ==
  LET d == IF dec.srcEof \/ dec.primed THEN [dec EXCEPT !.pcm = <<>>] ELSE Primed(dec)
      turn[k \in 0..max] == IF k = 0 THEN [d |-> d, out |-> <<>>] ELSE OneOutput(turn[k - 1])
  IN turn[max]
\* What Decode makes of dec, and the at most max outputs it returns.
Decode(max) ==
  LET d == IF dec.srcEof \/ dec.primed THEN dec ELSE Primed(dec)
      turn[k \in 0..max] == IF k = 0 THEN [d |-> d, out |-> <<>>] ELSE OneOutput(turn[k - 1])
  IN turn[max]
-----------------------------------------------------------------------------
(* The sound buffer                                                        *)

Behind(s) == (s - writePos + RING) % RING

\* n slots from writePos on take the outputs and then silence.
Filled(n, out) ==
  /\ ring' = [s \in Slots |->
                IF Behind(s) >= n THEN ring[s]
                ELSE IF Behind(s) < Len(out) THEN out[Behind(s) + 1] ELSE Silence]
  /\ stale' = {s \in stale : Behind(s) >= n}
  /\ nPlayed' = nPlayed + Len(out) /\ unheard' = (IF lost THEN 0 ELSE unheard + n)

\* DsPrime fills the ring before the start.
Prime == dec' = Decode(RING).d /\ Filled(RING, Decode(RING).out)

\* LoadFile, then Play: the file or the buffer may be missing.
LoadFile ==
  /\ loopAt = "load" /\ loopAt' = "pump"
  /\ \/ UNCHANGED <<hFile, hasBuf, dec, playing, nPlayed, ring, sounding, unheard, stale>>
     \/ /\ hFile' = TRUE
        /\ UNCHANGED <<hasBuf, dec, playing, nPlayed, ring, sounding, unheard, stale>>
     \/ /\ hFile' = TRUE /\ hasBuf' = TRUE /\ playing' = TRUE /\ sounding' = TRUE
        /\ Prime
  /\ UNCHANGED <<isMp3, step, nEof, writePos, playCursor, lPlay, tone, due, lost>>

Lost == lost' = TRUE /\ tone' = Silence /\ due' = 0 /\ unheard' = 0 /\ stale' = {}

\* The chip plays on, also over what it has played before.  (Where the order is lost it
\* is not followed any further until a Stop.)
Card ==
  /\ sounding /\ ~lost /\ playCursor' = (playCursor + 1) % RING
  /\ IF unheard = 0 THEN Lost
     ELSE /\ tone' = (IF playCursor \in stale THEN Silence ELSE ring[playCursor])
          /\ due' = due + (IF tone' = Silence THEN 0 ELSE 1) /\ unheard' = unheard - 1
          /\ UNCHANGED <<stale, lost>>
  /\ UNCHANGED <<loopAt, track, dec, playing, nEof, nPlayed, ring, writePos, sounding, lPlay>>

\* DsPump asks for the cursor...
PumpPosition ==
  /\ loopAt = "pump"
  /\ IF hasBuf THEN loopAt' = "fill" /\ lPlay' = playCursor ELSE loopAt' = "keys" /\ UNCHANGED lPlay
  /\ UNCHANGED <<track, dec, playing, nEof, nPlayed, ring, writePos, chip, playerHistory>>

Free == IF lPlay >= writePos THEN lPlay - writePos ELSE RING - writePos + lPlay

\* ... and fills what is behind it; paused, with silence.
PumpFill ==
  /\ loopAt = "fill" /\ loopAt' = "keys" /\ lPlay' = 0
  /\ LET n == Free - (Free % ALIGN)
         r == Decode(n)
     IN IF Free < 2 * ALIGN
          THEN UNCHANGED <<dec, nEof, nPlayed, ring, writePos, unheard, stale>>
          ELSE /\ IF playing THEN /\ dec' = r.d /\ Filled(n, r.out)
                                  /\ nEof' = (nEof \/ Len(r.out) < n)
                             ELSE Filled(n, <<>>) /\ UNCHANGED <<dec, nEof>>
               /\ writePos' = (writePos + n) % RING
  /\ UNCHANGED <<track, playing, chip, tone, due, lost>>
-----------------------------------------------------------------------------
(* The keys and buttons                                                    *)

PlayOrPause ==
  /\ \/ hFile /\ playing' = TRUE /\ sounding' = (sounding \/ (~playing /\ hasBuf))
     \/ playing' = FALSE /\ UNCHANGED sounding
  /\ UNCHANGED <<dec, nEof, nPlayed, writePos, playCursor, playerHistory>>

\* Stop.  The ring keeps its contents, and the next Play begins with them.
Stop ==
  /\ playing' = FALSE /\ sounding' = FALSE /\ writePos' = 0
  /\ playCursor' = (IF hasBuf THEN 0 ELSE playCursor)
  /\ IF hFile THEN dec' = Rewound /\ nPlayed' = 0 /\ nEof' = FALSE
              ELSE UNCHANGED <<dec, nPlayed, nEof>>
  /\ tone' = Silence /\ due' = 0 /\ unheard' = RING /\ stale' = Slots /\ lost' = FALSE

\* SeekFrac to a unit.  The MPEG frame, the resampler and g_nSrcEof stay.
SeekFrac(u) ==
  /\ hFile /\ dec' = [dec EXCEPT !.pos = u, !.streamPos = u, !.sbuf = <<>>]
  /\ nPlayed' = (u * TRACK) \div Len(File) /\ nEof' = FALSE
  /\ Lost /\ UNCHANGED <<playing, sounding, writePos, playCursor>>

Keys ==
  /\ loopAt = "keys" /\ loopAt' = "pump"
  /\ \/ PlayOrPause \/ Stop
     \/ \E u \in 0..Len(File) : SeekFrac(u)
     \/ UNCHANGED <<dec, playing, nEof, nPlayed, writePos, chip, playerHistory>>
  /\ UNCHANGED <<track, ring, lPlay>>

\* After the loop: Stop, DsClose and CloseHandle.
Leave ==
  /\ loopAt = "keys" /\ loopAt' = "gone" /\ Stop /\ hFile' = FALSE /\ hasBuf' = FALSE
  /\ UNCHANGED <<isMp3, step, ring, lPlay>>

PlayerNext == LoadFile \/ Card \/ PumpPosition \/ PumpFill \/ Keys \/ Leave

PlayerSpec == PlayerInit /\ [][PlayerNext]_playerVars
-----------------------------------------------------------------------------
\* The n-th output of a track, counted from 0.
Output(n) ==
  LET c == (n * step) \div ONE + 1 IN <<c, c + 1, (n * step) % ONE>>

\* The chip plays the outputs of the track (dcwplay.c) in order, none lost, none twice and
\* each from its own two frames, across the units of the file, the MPEG frames, the edge
\* of the ring, pauses, and a Stop and new start (after what the ring still holds); and
\* the time shown is never behind and at most a ring ahead.  Unless the user seeks, or the
\* program is so late that the chip overtakes it.
HeardInOrder ==
  ~lost => /\ tone # Silence => tone = Output(due - 1)
                   /\ due <= nPlayed /\ nPlayed <= due + RING
=============================================================================
