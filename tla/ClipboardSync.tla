--------------------------- MODULE ClipboardSync ---------------------------
(***************************************************************************)
(* Clipboard sharing (internal/clipboard/clipboard_linux.go): one Manager  *)
(* during one connection.                                                  *)
(*                                                                         *)
(*   poller    pollClipboard: notices that the local clipboard changed and *)
(*             starts a goroutine that sends it, or beats for a file       *)
(*   receiver  the receive loop of the connection, which runs HandlePacket *)
(*             and, after the link dropped, Stop                           *)
(*   pull      a goroutine of pullRemoteFile, started by a beat            *)
(*   answer    a goroutine started by a ClipboardAsk                       *)
(*                                                                         *)
(* Two things are to keep what came from the remote from being sent back:  *)
(* lastHash, and the three seconds after justSet.  Neither covers the time *)
(* in which the content is being put on the clipboard, which takes a       *)
(* command of up to five seconds.                                          *)
(*                                                                         *)
(* One action is one critical section of Manager.mu, one clipboard command *)
(* or one message sent.  A content is a value; the in-band stream of one   *)
(* is a number of chunks, which the remote sends contiguously.  A stream   *)
(* that lost its beginning does not decompress: a text is then dropped, an *)
(* image is taken as it is (Junk).  The commands that read the clipboard   *)
(* do not fail here; those that write it may.                              *)
(*                                                                         *)
(* A definition marked "mutant" is a plausible bug, used by no other       *)
(* definition: put in place of the one that follows, it must break a       *)
(* property.                                                               *)
(***************************************************************************)
EXTENDS Naturals

CONSTANTS
  Texts, Images, Files,  \* contents of a clipboard
  Hash,        \* what lastHash keeps of a content: length and beginning of a
               \*   text, length of an image, path of a file
  Chunks,      \* packets of the in-band stream of a content
  MaxRecvBuf,  \* chunks recvBuf has room for
  LocalUser, RemoteUser,  \* contents the two users copy
  MaxCopies, MaxArrivals  \* bounds: copies of the local user; streams and
                          \*   beats of the remote

NoClip == "none"
Junk   == "junk"   \* an image made of the end of a stream

Contents == Texts \cup Images \cup Files \cup {Junk}

ASSUME ClipboardAssumption ==
  /\ Texts \cap Images = {} /\ (Texts \cup Images) \cap Files = {}
  /\ {NoClip, Junk} \cap (Texts \cup Images \cup Files) = {}
  /\ \A c \in Contents : Hash[c] # NoClip
  /\ MaxRecvBuf \in Nat \ {0}
  /\ \A c \in Texts \cup Images : Chunks[c] \in Nat \ {0}
  /\ LocalUser \subseteq Contents /\ RemoteUser \subseteq Contents \ {Junk}
  /\ MaxCopies \in Nat /\ MaxArrivals \in Nat

VARIABLES
  \* Manager
  lastHash, localFile,
  received,    \* recvBuf: [n: chunks held, first: place of the first one]
  receiving, recvIsImage,
  justSet,     \* justSet is less than 3s ago
  stopped,     \* stopCh is closed
  \* goroutines
  poll, seen,  \* control point of the poller, and what it has read
  sending,     \* contents that sendText and sendImage goroutines hold
  recv, got,   \* control point of the receiver, and what it has received
  pull,        \* the pull goroutine: [st, file]
  answer,      \* the goroutine of a ClipboardAsk: [st, c]
  \* surroundings
  clip,        \* the local clipboard: [c, from: who put it there]
  stream,      \* in-band stream under way: [c, n: chunks received]
  copies, arrivals,
  \* history
  dirty,       \* the last arrival failed, or ran into the poller or another
  last         \* the content lastHash stands for: [c, fate: "told" if the
               \*   remote has it, "due" while it is to be sent, or "dropped"]

recvVars == <<received, receiving, recvIsImage>>
envVars  == <<copies, arrivals>>
vars == <<lastHash, localFile, recvVars, justSet, stopped, poll, seen,
          sending, recv, got, pull, answer, clip, stream, envVars, dirty, last>>

Nothing == [c |-> NoClip, from |-> "local"]
NoPull  == [st |-> "none", file |-> NoClip]
NoAnswer == [st |-> "none", c |-> NoClip]
NoStream == [c |-> NoClip, n |-> 0]
Empty    == [n |-> 0, first |-> 1]

HashOf(c) == IF c = NoClip THEN NoClip ELSE Hash[c]

\* A content arrives while the poller, or another arrival, is under way.
PollerBusy  == poll \notin {"idle", "done"}
RecvBusy    == recv \in {"set", "mark"}
PullBusy    == pull.st = "set"

\* History: lastHash stands for c from now on.
Records(c, fate) == last' = [c |-> c, fate |-> fate]

\* History: the remote is told c, or is not, if lastHash stands for it.
Tells(c) == last' = IF last.c = c THEN [c |-> c, fate |-> "told"] ELSE last
Drops(c) ==
  last' = IF last = [c |-> c, fate |-> "due"] THEN [c |-> c, fate |-> "dropped"]
                                              ELSE last

Init ==
  /\ lastHash = NoClip /\ localFile = NoClip
  /\ received = Empty /\ receiving = FALSE /\ recvIsImage = FALSE
  /\ justSet = FALSE /\ stopped = FALSE
  /\ poll = "idle" /\ seen = Nothing /\ sending = {}
  /\ recv = "loop" /\ got = NoClip
  /\ pull = NoPull /\ answer = NoAnswer
  /\ clip = Nothing /\ stream = NoStream
  /\ copies = 0 /\ arrivals = 0
  /\ dirty = FALSE /\ last = [c |-> NoClip, fate |-> "told"]

----------------------------------------------------------------------------
(* pollClipboard.                                                          *)

PollExit ==
  /\ poll = "idle" /\ stopped
  /\ poll' = "done"
  /\ UNCHANGED <<lastHash, localFile, recvVars, justSet, stopped, seen, sending,
                 recv, got, pull, answer, clip, stream, envVars, dirty, last>>

\* A tick outside the window after justSet.
PollTick ==
  /\ poll = "idle" /\ ~justSet
  /\ poll' = "file"
  /\ dirty' = (dirty \/ RecvBusy \/ PullBusy)
  /\ UNCHANGED <<lastHash, localFile, recvVars, justSet, stopped, seen, sending,
                 recv, got, pull, answer, clip, stream, envVars, last>>

\* A read that looks for one kind of content: found, or go on elsewhere.
Read(at, kind, found, else) ==
  /\ poll = at
  /\ IF clip.c \in kind THEN poll' = found /\ seen' = clip
                        ELSE poll' = else /\ UNCHANGED seen
  /\ UNCHANGED <<lastHash, localFile, recvVars, justSet, stopped, sending,
                 recv, got, pull, answer, clip, stream, envVars, dirty, last>>

ReadFile  == Read("file", Files, "fileHash", "image")
ReadImage == Read("image", Images \cup {Junk}, "imageHash", "text")
ReadText  == Read("text", Texts, "textHash", "idle")

\* A file: remember it, then beat.
CompareFile ==
  /\ poll = "fileHash"
  /\ IF Hash[seen.c] # lastHash
       THEN /\ lastHash' = Hash[seen.c] /\ localFile' = seen.c
            /\ poll' = "beat" /\ Records(seen.c, "due")
       ELSE /\ poll' = "idle"
            /\ UNCHANGED <<lastHash, localFile, last>>
  /\ UNCHANGED <<recvVars, justSet, stopped, seen, sending, recv, got, pull,
                 answer, clip, stream, envVars, dirty>>

\* The remote gets the beat, or the send fails.
SendBeat ==
  /\ poll = "beat"
  /\ poll' = "idle"
  /\ Tells(seen.c) \/ Drops(seen.c)
  /\ UNCHANGED <<lastHash, localFile, recvVars, justSet, stopped, seen, sending,
                 recv, got, pull, answer, clip, stream, envVars, dirty>>

\* An image: remember its length and send it.
CompareImage ==
  /\ poll = "imageHash"
  /\ IF Hash[seen.c] # lastHash
       THEN /\ lastHash' = Hash[seen.c]
            /\ sending' = sending \cup {seen.c}
            /\ Records(seen.c, "due")
       ELSE UNCHANGED <<lastHash, sending, last>>
  /\ poll' = "idle"
  /\ UNCHANGED <<localFile, recvVars, justSet, stopped, seen, recv, got, pull,
                 answer, clip, stream, envVars, dirty>>

CompareTextEarly ==                                            \* mutant
  /\ poll = "textHash"
  /\ poll' = IF Hash[seen.c] # lastHash THEN "confirm" ELSE "idle"
  /\ lastHash' = Hash[seen.c]
  /\ UNCHANGED <<localFile, recvVars, justSet, stopped, seen, sending, recv, got,
                 pull, answer, clip, stream, envVars, dirty, last>>

\* A text that differs is read once more after 150ms ...
CompareText ==
  /\ poll = "textHash"
  /\ poll' = IF Hash[seen.c] # lastHash THEN "confirm" ELSE "idle"
  /\ UNCHANGED <<lastHash, localFile, recvVars, justSet, stopped, seen, sending,
                 recv, got, pull, answer, clip, stream, envVars, dirty, last>>

ConfirmChanged ==                                              \* mutant
  /\ poll = "confirm"
  /\ poll' = IF clip.c # seen.c THEN "commit" ELSE "idle"
  /\ UNCHANGED <<lastHash, localFile, recvVars, justSet, stopped, seen, sending,
                 recv, got, pull, answer, clip, stream, envVars, dirty, last>>

Confirm ==
  /\ poll = "confirm"
  /\ poll' = IF clip.c = seen.c THEN "commit" ELSE "idle"
  /\ UNCHANGED <<lastHash, localFile, recvVars, justSet, stopped, seen, sending,
                 recv, got, pull, answer, clip, stream, envVars, dirty, last>>

\* ... and sent if it stayed.
CommitText ==
  /\ poll = "commit"
  /\ lastHash' = Hash[seen.c]
  /\ sending' = sending \cup {seen.c}
  /\ Records(seen.c, "due")
  /\ poll' = "idle"
  /\ UNCHANGED <<localFile, recvVars, justSet, stopped, seen, recv, got, pull,
                 answer, clip, stream, envVars, dirty>>

\* sendText and sendImage, whose packets sendMu keeps together: the remote
\* gets the content, or it is too large or the send fails, and nobody tries
\* again.  Two goroutines with the same content count as one.
SendClip(c) ==
  /\ c \in sending
  /\ sending' = sending \ {c}
  /\ Tells(c) \/ Drops(c)
  /\ UNCHANGED <<lastHash, localFile, recvVars, justSet, stopped, poll, seen,
                 recv, got, pull, answer, clip, stream, envVars, dirty>>

----------------------------------------------------------------------------
(* HandlePacket: in-band streams.                                          *)

\* handleChunk: the next chunk of the stream of c.
HandleChunk(c) ==
  LET i == stream.n + 1
      n == IF receiving THEN received.n ELSE 0
      room == n < MaxRecvBuf
  IN  /\ recv = "loop" /\ i <= Chunks[c]
      /\ IF stream = NoStream THEN arrivals < MaxArrivals /\ arrivals' = arrivals + 1
                              ELSE stream.c = c /\ UNCHANGED arrivals
      /\ stream' = [c |-> c, n |-> i]
      /\ recvIsImage' = IF receiving THEN recvIsImage ELSE c \in Images
      /\ receiving' = room
      /\ received' = IF room
                     THEN [n |-> n + 1,
                           first |-> IF receiving THEN received.first ELSE i]
                     ELSE Empty
  /\ UNCHANGED <<lastHash, localFile, justSet, stopped, poll, seen, sending, recv,
                 got, pull, answer, clip, copies, dirty, last>>

\* The buffer decodes to the content it was made from only if it is whole.
Whole == received.first = 1 /\ received.n = Chunks[stream.c]
Decoded ==
  IF received.n = 0 THEN NoClip
  ELSE IF Whole THEN stream.c
  ELSE IF recvIsImage THEN Junk ELSE NoClip

\* handleEnd: lastHash follows a text before it is put on the clipboard.
HandleEnd ==
  /\ recv = "loop" /\ stream # NoStream /\ stream.n = Chunks[stream.c]
  /\ stream' = NoStream
  /\ received' = Empty /\ receiving' = FALSE
  /\ IF Decoded = NoClip
       THEN UNCHANGED <<recv, got, lastHash, dirty, last>>
       ELSE /\ recv' = "set" /\ got' = Decoded
            /\ dirty' = (PollerBusy \/ PullBusy)
            /\ IF recvIsImage
                 THEN UNCHANGED <<lastHash, last>>
                 ELSE lastHash' = Hash[Decoded] /\ Records(Decoded, "told")
  /\ UNCHANGED <<localFile, recvIsImage, justSet, stopped, poll, seen, sending,
                 pull, answer, clip, envVars>>

\* setLocalClipboard, whose failure goes unnoticed, and the command of
\* handleImageClipboard, which returns when it fails.
SetClipboard ==
  /\ recv = "set"
  /\ \/ /\ clip' = [c |-> got, from |-> "remote"]
        /\ recv' = "mark"
        /\ UNCHANGED dirty
     \/ /\ recv' = IF got \in Texts THEN "mark" ELSE "loop"
        /\ dirty' = TRUE
        /\ UNCHANGED clip
  /\ UNCHANGED <<lastHash, localFile, recvVars, justSet, stopped, poll, seen,
                 sending, got, pull, answer, stream, envVars, last>>

MarkSetNoHash ==                                               \* mutant
  /\ recv = "mark"
  /\ recv' = "loop" /\ justSet' = TRUE
  /\ UNCHANGED <<lastHash, last>>
  /\ UNCHANGED <<localFile, recvVars, stopped, poll, seen, sending, got, pull,
                 answer, clip, stream, envVars, dirty>>

\* justSet, and lastHash for an image.
MarkSet ==
  /\ recv = "mark"
  /\ recv' = "loop" /\ justSet' = TRUE
  /\ IF got \in Texts THEN UNCHANGED <<lastHash, last>>
                      ELSE lastHash' = Hash[got] /\ Records(got, "told")
  /\ UNCHANGED <<localFile, recvVars, stopped, poll, seen, sending, got, pull,
                 answer, clip, stream, envVars, dirty>>

----------------------------------------------------------------------------
(* HandlePacket: beats and asks.                                           *)

\* A beat outside the window starts a pull (one at a time here).
RecvBeat ==
  /\ recv = "loop" /\ stream = NoStream /\ arrivals < MaxArrivals
  /\ ~justSet /\ pull = NoPull
  /\ pull' = [st |-> "pulling", file |-> NoClip]
  /\ arrivals' = arrivals + 1
  /\ UNCHANGED <<lastHash, localFile, recvVars, justSet, stopped, poll, seen,
                 sending, recv, got, answer, clip, stream, copies, dirty, last>>

\* pullFile failed, or the remote's clipboard is no file.
PullNothing ==
  /\ pull.st = "pulling"
  /\ pull' = NoPull
  /\ UNCHANGED <<lastHash, localFile, recvVars, justSet, stopped, poll, seen,
                 sending, recv, got, answer, clip, stream, envVars, dirty, last>>

PullMark(f) ==
  /\ pull.st = "pulling" /\ f \in RemoteUser \cap Files
  /\ pull' = [st |-> "set", file |-> f]
  /\ justSet' = TRUE /\ localFile' = f /\ lastHash' = Hash[f]
  /\ dirty' = (PollerBusy \/ RecvBusy)
  /\ Records(f, "told")
  /\ UNCHANGED <<recvVars, stopped, poll, seen, sending, recv, got, answer,
                 clip, stream, envVars>>

\* setLocalFileClipboard.
PullSet ==
  /\ pull.st = "set"
  /\ pull' = NoPull
  /\ \/ clip' = [c |-> pull.file, from |-> "remote"] /\ UNCHANGED dirty
     \/ dirty' = TRUE /\ UNCHANGED clip
  /\ UNCHANGED <<lastHash, localFile, recvVars, justSet, stopped, poll, seen,
                 sending, recv, got, answer, stream, envVars, last>>

\* An ask: push the file we offer, or send the text that is on the clipboard.
RecvAsk ==
  /\ recv = "loop" /\ stream = NoStream /\ answer = NoAnswer
  /\ answer' = IF localFile # NoClip THEN [st |-> "push", c |-> localFile]
                                     ELSE [st |-> "read", c |-> NoClip]
  /\ UNCHANGED <<lastHash, localFile, recvVars, justSet, stopped, poll, seen,
                 sending, recv, got, pull, clip, stream, envVars, dirty, last>>

\* sendClipboard reads.
AnswerRead ==
  /\ answer.st = "read"
  /\ answer' = IF clip.c \in Texts THEN [st |-> "send", c |-> clip.c] ELSE NoAnswer
  /\ UNCHANGED <<lastHash, localFile, recvVars, justSet, stopped, poll, seen,
                 sending, recv, got, pull, clip, stream, envVars, dirty, last>>

\* pushFile or sendText comes to an end; either may fail.
AnswerSent ==
  /\ answer.st \in {"push", "send"}
  /\ answer' = NoAnswer
  /\ Tells(answer.c) \/ UNCHANGED last
  /\ UNCHANGED <<lastHash, localFile, recvVars, justSet, stopped, poll, seen,
                 sending, recv, got, pull, clip, stream, envVars, dirty>>

----------------------------------------------------------------------------
(* Stop, time and the local user.                                          *)

\* The link dropped: Stop closes stopCh ...
Stop ==
  /\ recv = "loop"
  /\ stopped' = TRUE /\ recv' = "wait"
  /\ UNCHANGED <<lastHash, localFile, recvVars, justSet, poll, seen, sending,
                 got, pull, answer, clip, stream, envVars, dirty, last>>

WaitPoller ==                                                  \* mutant
  /\ recv = "wait" /\ poll = "done"
  /\ recv' = "closed"
  /\ UNCHANGED <<lastHash, localFile, recvVars, justSet, stopped, poll, seen,
                 sending, got, pull, answer, clip, stream, envVars, dirty, last>>

\* ... and waits for the poller and the senders.
WaitDrained ==
  /\ recv = "wait" /\ poll = "done" /\ sending = {}
  /\ recv' = "closed"
  /\ UNCHANGED <<lastHash, localFile, recvVars, justSet, stopped, poll, seen,
                 sending, got, pull, answer, clip, stream, envVars, dirty, last>>

WindowExpires ==
  /\ justSet
  /\ justSet' = FALSE
  /\ UNCHANGED <<lastHash, localFile, recvVars, stopped, poll, seen, sending,
                 recv, got, pull, answer, clip, stream, envVars, dirty, last>>

Copy(c) ==
  /\ copies < MaxCopies
  /\ clip' = [c |-> c, from |-> "local"]
  /\ copies' = copies + 1
  /\ UNCHANGED <<lastHash, localFile, recvVars, justSet, stopped, poll, seen,
                 sending, recv, got, pull, answer, stream, arrivals, dirty, last>>

\* The Manager is gone.
Terminated ==
  /\ recv = "closed" /\ copies = MaxCopies
  /\ pull = NoPull /\ answer = NoAnswer /\ ~justSet
  /\ UNCHANGED vars

----------------------------------------------------------------------------
PollStep ==
  \/ PollTick \/ ReadFile \/ ReadImage \/ ReadText
  \/ CompareFile \/ SendBeat \/ CompareImage
  \/ CompareText \/ Confirm \/ CommitText

PullStep == PullNothing \/ (\E f \in Files : PullMark(f)) \/ PullSet

Next ==
  \/ PollExit \/ PollStep
  \/ \E c \in Contents : SendClip(c)
  \/ \E c \in RemoteUser \ Files : HandleChunk(c)
  \/ HandleEnd \/ SetClipboard \/ MarkSet
  \/ RecvBeat \/ PullStep
  \/ RecvAsk \/ AnswerRead \/ AnswerSent
  \/ Stop \/ WaitDrained \/ WindowExpires
  \/ \E c \in LocalUser : Copy(c)
  \/ Terminated

Spec == Init /\ [][Next]_vars

(***************************************************************************)
(* Ticks come every second and commands end within five: the poller, the   *)
(* senders and an arrival that began go on.  The window expires.  A poller *)
(* that comes back to a closed stopCh again and again eventually takes it. *)
(***************************************************************************)
FairSpec ==
  /\ Spec
  /\ WF_vars(PollStep) /\ SF_vars(PollExit)
  /\ \A c \in Contents : WF_vars(SendClip(c))
  /\ WF_vars(SetClipboard \/ MarkSet) /\ WF_vars(PullStep)
  /\ WF_vars(WindowExpires) /\ WF_vars(WaitDrained)

----------------------------------------------------------------------------
(* Properties.                                                             *)

Hashes == {NoClip} \cup {Hash[c] : c \in Contents}
Clips  == [c : Contents \cup {NoClip}, from : {"local", "remote"}]

\* What came from the remote is not sent or beaten back, as long as it was
\* put on the clipboard while no poll and no other arrival was under way:
\* one clean arrival heals what an unclean one left
\* (clipboard_linux.go:392, 464-466).
NoEcho ==
  [][seen.from = "remote" /\ poll' # poll
     /\ (poll' = "beat" \/ sending' # sending \/ poll = "commit")
       => dirty]_vars

\* The clipboard holds a local copy that is not what the remote was told last.
Unsent ==
  clip.c # NoClip /\ clip.from = "local" /\ last # [c |-> clip.c, fate |-> "told"]

\* Two ways in which the code loses a copy: it is taken for another content
\* of the same length (image) or length and beginning (text), or its one send
\* was refused or failed.
Mistaken == last.c # clip.c /\ HashOf(last.c) = HashOf(clip.c)
Dropped  == last = [c |-> clip.c, fate |-> "dropped"]

\* Whatever the local user copies and leaves there gets to the remote: unless
\* the copy is mistaken for another or its send dropped, neither the window,
\* nor arrivals, nor a text that is still changing make the poller miss it.
CopyIsSent == Unsent ~> (~Unsent \/ Mistaken \/ Dropped \/ stopped)

\* What keeps the poller from sending is never ahead of the sending: if a copy
\* that the remote does not have looks unchanged, some goroutine is about to
\* send it, or it is mistaken for another or was dropped
\* (clipboard_linux.go:149-222, 393-404).
NeverForgotten ==
  Unsent /\ lastHash = HashOf(clip.c) =>
    \/ clip.c \in sending
    \/ poll = "beat" /\ seen.c = clip.c
    \/ Mistaken \/ Dropped

\* Stop waits for the goroutines that send what the poller found, so none of
\* them writes to a connection that was closed (CHANGELOG.md:137-138).
SendsDrained == recv = "closed" => sending = {} /\ poll = "done"

============================================================================
