-------------------------- MODULE Clipboard_proofs --------------------------
(***************************************************************************)
(* Proofs about the two halves of internal/clipboard.                      *)
(*                                                                         *)
(* ClipboardSync: nothing that came from the remote is sent back unless an *)
(* arrival was unclean, for any contents, streams, limits and users.       *)
(* NoEcho speaks of a step of the poller, the inductive invariant IInv of  *)
(* the whole history behind it: while dirty is unset, arrivals and polls   *)
(* take turns (Alone), lastHash follows the content through every stage of *)
(* an arrival (Arriving) and stays with it while it lies on the clipboard  *)
(* (Kept), and what the poller has in its hands is what is there (Read).   *)
(*                                                                         *)
(* A local copy that looks unchanged is either known to the remote, or     *)
(* somebody still has it in hand, or it was lost in a way that is named:   *)
(* Accounted says what lastHash stands for, and who is to send it.         *)
(*                                                                         *)
(* FileTransfer: a file that was received is the one that was sent, and no *)
(* pull fails of itself, for any sizes of the file, of the cipher block    *)
(* and of the two buffers.  The inductive invariant PullInv says of every  *)
(* pull that nothing spoiled where in the file both ends stand, and that   *)
(* the pipe holds the bytes in between (FlowOf); that it rests on is       *)
(* arithmetic of whole blocks, and what one write adds and one read takes. *)
(***************************************************************************)
EXTENDS ClipboardSync, FileTransfer, SequenceTheorems, TLAPS

PollerHolds == poll \in {"fileHash", "imageHash", "textHash", "confirm", "commit"}

\* What the stages of a stream know of each other.
StreamOK ==
  /\ stream = NoStream \/ stream.c \in Texts \cup Images
  /\ received.n # 0 => receiving
  /\ receiving => stream # NoStream /\ recvIsImage = (stream.c \in Images)

\* Of the poller, the receiver and the pull, at most one is under way.
Alone ==
  /\ PollerBusy => ~RecvBusy /\ ~PullBusy
  /\ ~(RecvBusy /\ PullBusy)

\* The hash of what arrives is known before it is on the clipboard, or, for
\* an image, before the receiver is done with it.
Arriving ==
  /\ RecvBusy /\ got \in Texts => lastHash = Hash[got]
  /\ recv = "mark" /\ clip.from = "remote" => clip.c = got
  /\ PullBusy => lastHash = Hash[pull.file]

\* The hash of what lies on the clipboard and came from the remote is known.
Kept ==
  clip.from = "remote" /\ ~RecvBusy /\ ~PullBusy => lastHash = Hash[clip.c]

\* The poller holds what is on the clipboard, and a text it would send did
\* not come from the remote.
ReadOK ==
  PollerHolds =>
    /\ clip.from = "remote" => seen = clip
    /\ seen.from = "remote" => lastHash = Hash[seen.c] /\ poll \notin {"confirm", "commit"}

IInv == StreamOK /\ (~dirty => Alone /\ Arriving /\ Kept /\ ReadOK)

----------------------------------------------------------------------------
\* What a stream decodes to is a text exactly if no image was announced.
LEMMA DecodedKind ==
  ASSUME StreamOK, Decoded # NoClip
  PROVE  Decoded \in Texts <=> ~recvIsImage
<1>1. received.n # 0 /\ receiving
  BY DEF Decoded, StreamOK
<1>2. stream # NoStream /\ stream.c \in Texts \cup Images
      /\ recvIsImage = (stream.c \in Images)
  BY <1>1, Zenon DEF StreamOK
<1>3. Texts \cap Images = {} /\ Junk \notin Texts
  BY ClipboardAssumption
<1>4. CASE Whole
  <2>1. Decoded = stream.c
    BY <1>1, <1>4 DEF Decoded
  <2> QED
    BY <1>2, <1>3, <2>1
<1>5. CASE ~Whole
  <2>1. Decoded = IF recvIsImage THEN Junk ELSE NoClip
    BY <1>1, <1>5 DEF Decoded
  <2> QED
    BY <1>3, <2>1
<1> QED
  BY <1>4, <1>5

LEMMA InitInv == Init => IInv
BY DEF Init, IInv, StreamOK, Alone, Arriving, Kept, ReadOK, NoStream, Empty,
       Nothing, NoPull, PollerBusy, RecvBusy, PullBusy, PollerHolds

\* Streams: only chunks and their end touch what StreamOK speaks of.
LEMMA StreamStep ==
  ASSUME StreamOK, [Next]_vars
  PROVE  StreamOK'
<1>1. ASSUME NEW c \in RemoteUser \ Files, HandleChunk(c)
      PROVE  StreamOK'
  <2>1. c \in Texts \cup Images
    BY ClipboardAssumption DEF Contents
  <2>2. stream'.c = c /\ stream' # NoStream
    <3>1. c # NoClip
      BY <2>1, ClipboardAssumption
    <3> QED
      BY <1>1, <3>1 DEF HandleChunk, NoStream
  <2>3. received'.n # 0 => receiving'
    BY <1>1 DEF HandleChunk, Empty
  <2>4. recvIsImage' = (c \in Images)
    <3>1. CASE receiving
      <4>1. stream # NoStream /\ recvIsImage = (stream.c \in Images)
        BY <3>1, Zenon DEF StreamOK
      <4>2. stream.c = c /\ recvIsImage' = recvIsImage
        BY <1>1, <3>1, <4>1 DEF HandleChunk
      <4> QED
        BY <4>1, <4>2
    <3>2. CASE ~receiving
      BY <1>1, <3>2 DEF HandleChunk
    <3> QED
      BY <3>1, <3>2
  <2> QED
    BY <2>1, <2>2, <2>3, <2>4, Zenon DEF StreamOK
<1>2. CASE HandleEnd
  <2>1. stream' = NoStream /\ received'.n = 0 /\ receiving' = FALSE
    BY <1>2 DEF HandleEnd, Empty
  <2> QED
    BY <2>1, Zenon DEF StreamOK
<1>3. CASE UNCHANGED <<recvVars, stream>>
  BY <1>3 DEF StreamOK, recvVars
<1>4. ASSUME Next, ~HandleEnd, ~(\E c \in RemoteUser \ Files : HandleChunk(c))
      PROVE  UNCHANGED <<recvVars, stream>>
  BY <1>4, Zenon
     DEF Next, PollExit, PollStep, PollTick, ReadFile, ReadImage, ReadText, Read,
         CompareFile, SendBeat, CompareImage, CompareText, Confirm, CommitText,
         SendClip, SetClipboard, MarkSet, RecvBeat, PullStep, PullNothing,
         PullMark, PullSet, RecvAsk, AnswerRead, AnswerSent, Stop, WaitDrained,
         WindowExpires, Copy, Terminated, vars
<1>5. CASE UNCHANGED vars
  BY <1>3, <1>5 DEF vars
<1> QED
  BY <1>1, <1>2, <1>3, <1>4, <1>5, Zenon

----------------------------------------------------------------------------
\* What is on the clipboard follows the arrivals and the poller.
Clean == Alone /\ Arriving /\ Kept /\ ReadOK

LEMMA CleanStep ==
  ASSUME IInv, [Next]_vars, ~dirty'
  PROVE  Clean'
<1> USE DEF Clean, Alone, Arriving, Kept, ReadOK, PollerBusy, RecvBusy, PullBusy,
            PollerHolds
\* Arrivals begin afresh, whatever was before.
<1>1. CASE HandleEnd
  <2>1. CASE Decoded = NoClip
    <3>1. ~dirty /\ UNCHANGED <<recv, got, lastHash, poll, seen, pull, clip>>
      BY <1>1, <2>1 DEF HandleEnd
    <3> QED
      BY <3>1 DEF IInv
  <2>2. CASE Decoded # NoClip
    <3>1. /\ recv' = "set" /\ got' = Decoded
          /\ UNCHANGED <<poll, pull, clip>>
      BY <1>1, <2>2 DEF HandleEnd
    <3>2. ~PollerBusy /\ ~PullBusy
      BY <1>1, <2>2 DEF HandleEnd
    <3>3. Decoded \in Texts => lastHash' = Hash[Decoded]
      <4>1. Decoded \in Texts => ~recvIsImage
        BY <2>2, DecodedKind, Zenon DEF IInv
      <4> QED
        BY <1>1, <2>2, <4>1 DEF HandleEnd
    <3> QED
      BY <3>1, <3>2, <3>3
  <2> QED
    BY <2>1, <2>2
<1>2. ASSUME NEW f \in Files, PullMark(f)
      PROVE  Clean'
  BY <1>2 DEF PullMark
\* Any other step starts from a clean state.
<1>3. ASSUME ~dirty, Next, ~HandleEnd, ~(\E f \in Files : PullMark(f))
      PROVE  Clean'
  <2>1. Clean
    BY <1>3 DEF IInv
  <2>2. CASE PollStep
    <3>1. CASE PollTick
      BY <2>1, <3>1 DEF PollTick
    <3>2. CASE ReadFile \/ ReadImage \/ ReadText
      BY <2>1, <3>2 DEF ReadFile, ReadImage, ReadText, Read
    <3>3. CASE CompareFile \/ SendBeat
      BY <2>1, <3>3 DEF CompareFile, SendBeat
    <3>4. CASE CompareImage
      BY <2>1, <3>4 DEF CompareImage
    <3>5. CASE CompareText \/ Confirm
      BY <2>1, <3>5 DEF CompareText, Confirm
    <3>6. CASE CommitText
      BY <2>1, <3>6 DEF CommitText
    <3> QED
      BY <2>2, <3>1, <3>2, <3>3, <3>4, <3>5, <3>6 DEF PollStep
  <2>3. CASE PollExit
    BY <2>1, <2>3 DEF PollExit
  <2>4. CASE SetClipboard
    BY <1>3, <2>1, <2>4 DEF SetClipboard
  <2>5. CASE MarkSet
    BY <2>1, <2>5 DEF MarkSet
  <2>6. CASE PullNothing \/ PullSet \/ RecvBeat
    BY <1>3, <2>1, <2>6 DEF PullNothing, PullSet, RecvBeat, NoPull
  <2>7. CASE Stop \/ WaitDrained
    BY <2>1, <2>7 DEF Stop, WaitDrained
  <2>8. ASSUME NEW c \in LocalUser, Copy(c)
        PROVE  Clean'
    BY <2>1, <2>8 DEF Copy
  <2>9. CASE UNCHANGED <<lastHash, poll, seen, recv, got, pull, clip>>
    BY <2>1, <2>9
  <2> QED
    BY <1>3, <2>2, <2>3, <2>4, <2>5, <2>6, <2>7, <2>8, <2>9, Zenon
       DEF Next, PullStep, SendClip, HandleChunk, RecvAsk, AnswerRead, AnswerSent,
           WindowExpires, Terminated, vars
<1>4. ASSUME Next, ~HandleEnd, ~(\E f \in Files : PullMark(f))
      PROVE  ~dirty
  BY <1>4, Zenon
     DEF Next, PollExit, PollStep, PollTick, ReadFile, ReadImage, ReadText, Read,
         CompareFile, SendBeat, CompareImage, CompareText, Confirm, CommitText,
         SendClip, SetClipboard, MarkSet, RecvBeat, PullStep, PullNothing,
         PullSet, RecvAsk, AnswerRead, AnswerSent, Stop, WaitDrained, HandleChunk,
         WindowExpires, Copy, Terminated, vars
<1>5. CASE UNCHANGED vars
  BY <1>5 DEF IInv, vars
<1> QED
  BY <1>1, <1>2, <1>3, <1>4, <1>5, Zenon

LEMMA InvStep == IInv /\ [Next]_vars => IInv'
BY StreamStep, CleanStep, Zenon DEF IInv, Clean

----------------------------------------------------------------------------
\* The poller never sends or beats back what came from the remote, unless
\* the last arrival failed or ran into a poll or another arrival.
THEOREM EchoFree == Spec => NoEcho
<1>1. IInv /\ [Next]_vars =>
        (seen.from = "remote" /\ poll' # poll
         /\ (poll' = "beat" \/ sending' # sending \/ poll = "commit") => dirty)
  <2> SUFFICES ASSUME IInv, Next, seen.from = "remote", poll' # poll,
                      poll' = "beat" \/ sending' # sending \/ poll = "commit",
                      ~dirty
               PROVE  FALSE
    BY DEF vars
  <2>1. Clean
    BY DEF IInv, Clean
  <2>2. CASE poll = "commit"
    BY <2>1, <2>2 DEF Clean, ReadOK, PollerHolds
  <2>3. CASE poll # "commit"
    <3>1. CompareFile \/ CompareImage
      BY <2>3, Zenon
         DEF Next, PollExit, PollStep, PollTick, ReadFile, ReadImage, ReadText,
             Read, SendBeat, CompareText, Confirm, CommitText, SendClip, HandleChunk,
             HandleEnd, SetClipboard, MarkSet, RecvBeat, PullStep, PullNothing,
             PullMark, PullSet, RecvAsk, AnswerRead, AnswerSent, Stop, WaitDrained,
             WindowExpires, Copy, Terminated, vars
    <3>2. lastHash = Hash[seen.c]
      BY <2>1, <3>1 DEF CompareFile, CompareImage, Clean, ReadOK, PollerHolds
    <3> QED
      BY <2>3, <3>1, <3>2 DEF CompareFile, CompareImage
  <2> QED
    BY <2>2, <2>3
<1>2. Spec => []IInv
  BY InitInv, InvStep, PTL DEF Spec
<1> QED
  BY <1>1, <1>2, PTL DEF Spec, NoEcho

\* Once Stop returned, the poller is gone and no sender it started is left.
THEOREM Drained == Spec => []SendsDrained
<1>1. Init => SendsDrained
  BY DEF Init, SendsDrained
<1>2. SendsDrained /\ [Next]_vars => SendsDrained'
  <2> SUFFICES ASSUME SendsDrained, [Next]_vars, recv' = "closed"
               PROVE  sending' = {} /\ poll' = "done"
    BY DEF SendsDrained
  <2>1. CASE WaitDrained
    BY <2>1 DEF WaitDrained
  <2>2. CASE recv = "closed"
    <3>1. sending = {} /\ poll = "done"
      BY <2>2 DEF SendsDrained
    <3>2. UNCHANGED poll /\ sending' \subseteq sending
      BY <2>2, <3>1
         DEF Next, PollExit, PollStep, PollTick, ReadFile, ReadImage, ReadText,
             Read, CompareFile, SendBeat, CompareImage, CompareText, Confirm,
             CommitText, SendClip, HandleChunk, HandleEnd, SetClipboard, MarkSet,
             RecvBeat, PullStep, PullNothing, PullMark, PullSet, RecvAsk,
             AnswerRead, AnswerSent, Stop, WaitDrained, WindowExpires, Copy,
             Terminated, vars
    <3> QED
      BY <3>1, <3>2
  <2>3. WaitDrained \/ recv = "closed"
    BY DEF Next, PollExit, PollStep, PollTick, ReadFile, ReadImage, ReadText,
           Read, CompareFile, SendBeat, CompareImage, CompareText, Confirm,
           CommitText, SendClip, HandleChunk, HandleEnd, SetClipboard, MarkSet,
           RecvBeat, PullStep, PullNothing, PullMark, PullSet, RecvAsk,
           AnswerRead, AnswerSent, Stop, WindowExpires, Copy, Terminated, vars
  <2> QED
    BY <2>1, <2>2, <2>3
<1> QED
  BY <1>1, <1>2, PTL DEF Spec

----------------------------------------------------------------------------
\* The steps that touch neither lastHash, nor what it stands for, nor those
\* who are to send it.
Aside ==
  /\ UNCHANGED <<lastHash, last, sending>>
  /\ UNCHANGED <<poll, seen>> \/ poll # "beat"

\* lastHash stands for a content, and one that is still due is in the hands
\* of a sender, or about to be beaten.
Accounted ==
  /\ lastHash = HashOf(last.c)
  /\ last = [c |-> last.c, fate |-> last.fate]
  /\ last.fate \in {"told", "due", "dropped"}
  /\ last.fate = "due" => last.c \in sending \/ (poll = "beat" /\ seen.c = last.c)

\* Hands are full where HashOf stands for Hash.
Hands ==
  /\ PollerHolds => seen.c # NoClip
  /\ RecvBusy => got # NoClip
  /\ PullBusy => pull.file # NoClip

LEMMA SomeClip == NoClip \notin Contents
BY ClipboardAssumption DEF Contents, NoClip, Junk

LEMMA HandsStep ==
  ASSUME Hands, [Next]_vars PROVE Hands'
<1> USE DEF Hands, PollerHolds, RecvBusy, PullBusy
<1>1. CASE ReadFile \/ ReadImage \/ ReadText
  <2>1. clip.c \in Contents => clip.c # NoClip
    BY SomeClip
  <2>2. Texts \cup Images \cup Files \cup {Junk} = Contents
    BY DEF Contents
  <2> QED
    BY <1>1, <2>1, <2>2 DEF ReadFile, ReadImage, ReadText, Read
<1>2. CASE CompareFile \/ CompareImage
  BY <1>2 DEF CompareFile, CompareImage
<1>3. CASE CompareText \/ Confirm \/ CommitText
  BY <1>3 DEF CompareText, Confirm, CommitText
<1>4. CASE PollExit \/ PollTick \/ SendBeat
  BY <1>4 DEF PollExit, PollTick, SendBeat
<1>5. CASE HandleEnd
  <2>1. UNCHANGED <<poll, seen, pull>>
    BY <1>5 DEF HandleEnd
  <2>2. recv' # recv => got' # NoClip
    BY <1>5 DEF HandleEnd
  <2>3. recv' = recv => recv = "loop"
    BY <1>5 DEF HandleEnd
  <2> QED
    BY <2>1, <2>2, <2>3
<1>6. CASE SetClipboard
  BY <1>6 DEF SetClipboard
<1>7. CASE MarkSet
  BY <1>7 DEF MarkSet
<1>8. ASSUME NEW f \in Files, PullMark(f) PROVE Hands'
  <2>1. f # NoClip
    BY SomeClip DEF Contents
  <2> QED
    BY <1>8, <2>1 DEF PullMark
<1>9. CASE PullNothing \/ PullSet \/ RecvBeat
  BY <1>9 DEF PullNothing, PullSet, RecvBeat, NoPull
<1>10. CASE Stop \/ WaitDrained
  BY <1>10 DEF Stop, WaitDrained
<1>11. CASE UNCHANGED <<poll, seen, recv, got, pull>>
  BY <1>11
<1>12. ASSUME [Next]_vars, ~(ReadFile \/ ReadImage \/ ReadText),
              ~(CompareFile \/ CompareImage), ~(CompareText \/ Confirm \/ CommitText),
              ~(PollExit \/ PollTick \/ SendBeat), ~HandleEnd, ~SetClipboard, ~MarkSet,
              ~(\E f \in Files : PullMark(f)), ~(PullNothing \/ PullSet \/ RecvBeat),
              ~(Stop \/ WaitDrained)
       PROVE  UNCHANGED <<poll, seen, recv, got, pull>>
  BY <1>12, Zenon DEF Next, PollStep, PullStep, SendClip, HandleChunk, RecvAsk,
     AnswerRead, AnswerSent, WindowExpires, Copy, Terminated, vars
<1> QED
  BY <1>1, <1>2, <1>3, <1>4, <1>5, <1>6, <1>7, <1>8, <1>9, <1>10, <1>11, <1>12,
     Zenon

\* lastHash and what it stands for change together.
LEMMA RecordStep ==
  ASSUME NEW c, NEW fate \in {"told", "due"}, c # NoClip,
         lastHash' = Hash[c], Records(c, fate),
         fate = "due" => c \in sending' \/ (poll' = "beat" /\ seen'.c = c)
  PROVE  Accounted'
<1>1. last'.c = c /\ last'.fate = fate
  BY DEF Records
<1> QED BY <1>1 DEF Accounted, Records, HashOf

\* The remote is told a content, or is not, by the one who had it in hand.
LEMMA SentStep ==
  ASSUME Accounted, NEW c, Tells(c) \/ Drops(c), UNCHANGED lastHash,
         last.c # c /\ last.fate = "due" =>
           last.c \in sending' \/ (poll' = "beat" /\ seen'.c = last.c)
  PROVE  Accounted'
<1>1. CASE last.c = c /\ last.fate = "due"
  <2>1. last = [c |-> c, fate |-> "due"]
    BY <1>1 DEF Accounted
  <2>2. last' = [c |-> c, fate |-> "told"] \/ last' = [c |-> c, fate |-> "dropped"]
    BY <1>1, <2>1 DEF Tells, Drops
  <2>3. last'.c = c /\ last'.fate \in {"told", "dropped"}
        /\ last' = [c |-> last'.c, fate |-> last'.fate]
    BY <2>2
  <2> QED BY <1>1, <2>3 DEF Accounted
<1>2. CASE last.c = c /\ last.fate # "due"
  <2>1. last' = last \/ last' = [c |-> c, fate |-> "told"]
    BY <1>2 DEF Tells, Drops
  <2> QED BY <1>2, <2>1 DEF Accounted
<1>3. CASE last.c # c
  <2>1. last' = last
    BY <1>3 DEF Tells, Drops
  <2> QED BY <1>3, <2>1 DEF Accounted
<1> QED BY <1>1, <1>2, <1>3

LEMMA AccountedStep ==
  ASSUME Hands, Accounted, [Next]_vars PROVE Accounted'
<1>1. CASE CompareFile
  <2>1. seen.c # NoClip
    BY <1>1 DEF CompareFile, Hands, PollerHolds
  <2>2. CASE Hash[seen.c] # lastHash
    <3>1. lastHash' = Hash[seen.c] /\ Records(seen.c, "due") /\ poll' = "beat"
          /\ seen' = seen
      BY <1>1, <2>2 DEF CompareFile
    <3> QED BY <2>1, <3>1, RecordStep
  <2>3. CASE Hash[seen.c] = lastHash
    BY <1>1, <2>3 DEF CompareFile, Accounted
  <2> QED
    BY <2>2, <2>3
<1>2. CASE SendBeat
  <2>1. (Tells(seen.c) \/ Drops(seen.c)) /\ UNCHANGED <<lastHash, sending>>
    BY <1>2 DEF SendBeat
  <2>2. last.c # seen.c /\ last.fate = "due" => last.c \in sending
    BY DEF Accounted
  <2> QED BY <2>1, <2>2, SentStep
<1>3. CASE CompareImage \/ CommitText
  <2>1. seen.c # NoClip /\ poll # "beat"
    BY <1>3 DEF CompareImage, CommitText, Hands, PollerHolds
  <2>2. CASE UNCHANGED <<lastHash, sending, last>>
    BY <2>1, <2>2 DEF Accounted
  <2>3. CASE ~UNCHANGED <<lastHash, sending, last>>
    <3>1. lastHash' = Hash[seen.c] /\ Records(seen.c, "due") /\ seen.c \in sending'
      BY <1>3, <2>3 DEF CompareImage, CommitText
    <3> QED BY <2>1, <3>1, RecordStep
  <2> QED
    BY <2>2, <2>3
<1>4. ASSUME NEW s \in Contents, SendClip(s) PROVE Accounted'
  <2>1. /\ Tells(s) \/ Drops(s)
        /\ sending' = sending \ {s} /\ UNCHANGED <<lastHash, poll, seen>>
    BY <1>4 DEF SendClip
  <2>2. last.c # s /\ last.fate = "due" =>
          last.c \in sending' \/ (poll' = "beat" /\ seen'.c = last.c)
    BY <2>1 DEF Accounted
  <2> QED BY <2>1, <2>2, SentStep
<1>5. CASE HandleEnd
  <2>1. CASE UNCHANGED <<lastHash, last>>
    BY <1>5, <2>1 DEF HandleEnd, Accounted
  <2>2. CASE ~UNCHANGED <<lastHash, last>>
    <3>1. Decoded # NoClip /\ lastHash' = Hash[Decoded] /\ Records(Decoded, "told")
      BY <1>5, <2>2 DEF HandleEnd
    <3> QED BY <3>1, RecordStep
  <2> QED
    BY <2>1, <2>2
<1>6. CASE MarkSet
  <2>1. got # NoClip
    BY <1>6 DEF MarkSet, Hands, RecvBusy
  <2>2. CASE got \in Texts
    BY <1>6, <2>2 DEF MarkSet, Accounted
  <2>3. CASE got \notin Texts
    <3>1. lastHash' = Hash[got] /\ Records(got, "told")
      BY <1>6, <2>3 DEF MarkSet
    <3> QED BY <2>1, <3>1, RecordStep
  <2> QED
    BY <2>2, <2>3
<1>7. ASSUME NEW f \in Files, PullMark(f) PROVE Accounted'
  <2>1. f # NoClip
    BY SomeClip DEF Contents
  <2>2. lastHash' = Hash[f] /\ Records(f, "told")
    BY <1>7 DEF PullMark
  <2> QED
    BY <2>1, <2>2, RecordStep
<1>8. CASE AnswerSent
  <2>1. UNCHANGED <<lastHash, sending, poll, seen>>
    BY <1>8 DEF AnswerSent
  <2>2. CASE UNCHANGED last
    BY <2>1, <2>2 DEF Accounted
  <2>3. CASE Tells(answer.c)
    BY <2>1, <2>3, SentStep DEF Accounted
  <2> QED BY <1>8, <2>2, <2>3 DEF AnswerSent
<1>9. CASE Aside
  BY <1>9 DEF Aside, Accounted
<1>10. ASSUME [Next]_vars, ~CompareFile, ~SendBeat, ~(CompareImage \/ CommitText),
              ~(\E s \in Contents : SendClip(s)), ~HandleEnd, ~MarkSet,
              ~(\E f \in Files : PullMark(f)), ~AnswerSent
       PROVE  Aside
  <2>1. CASE PollExit \/ PollTick \/ CompareText \/ Confirm
    BY <2>1 DEF PollExit, PollTick, CompareText, Confirm, Aside
  <2>2. CASE ReadFile \/ ReadImage \/ ReadText
    BY <2>2 DEF ReadFile, ReadImage, ReadText, Read, Aside
  <2>3. CASE UNCHANGED <<lastHash, last, sending, poll, seen>>
    BY <2>3 DEF Aside
  <2> QED
    BY <1>10, <2>1, <2>2, <2>3, Zenon DEF Next, PollStep, PullStep, HandleChunk,
       SetClipboard, PullSet, PullNothing, RecvBeat, RecvAsk, AnswerRead, Stop,
       WaitDrained, WindowExpires, Copy, Terminated, vars
<1> QED
  BY <1>1, <1>2, <1>3, <1>4, <1>5, <1>6, <1>7, <1>8, <1>9, <1>10, Zenon

\* The poller's memory is never ahead of the sending, for any contents and
\* any hashes: a local copy that the remote was not told and that looks
\* unchanged is in the hands of a sender or about to be beaten, or the code
\* lost it in one of two ways, taking it for another content with the same
\* hash or giving its only send up.
THEOREM CopyAccounted == Spec => []NeverForgotten
<1>1. Init => Hands /\ Accounted
  BY DEF Init, Hands, Accounted, HashOf, PollerHolds, RecvBusy, PullBusy, NoPull
<1>2. Accounted => NeverForgotten
  BY DEF Accounted, NeverForgotten, Unsent, Mistaken, Dropped
<1> QED
  BY <1>1, <1>2, HandsStep, AccountedStep, PTL DEF Spec

----------------------------------------------------------------------------
USE DEF serverVars, fileVars

(***************************************************************************)
(* FileTransfer.  Lengths of whole cipher blocks: sums, gaps, roundings.   *)
(***************************************************************************)
WholeBlocks(n) == \E k \in Nat : n = k * Block

LEMMA WholeMod ==
  ASSUME FileAssumption, NEW n \in Nat
  PROVE  WholeBlocks(n) <=> n % Block = 0
<1>1. Block \in Nat /\ Block > 0
  BY DEF FileAssumption
<1>2. ASSUME n % Block = 0 PROVE WholeBlocks(n)
  <2>1. n = (n \div Block) * Block /\ n \div Block \in Nat
    BY <1>1, <1>2
  <2> QED BY <2>1 DEF WholeBlocks
<1>3. ASSUME WholeBlocks(n) PROVE n % Block = 0
  <2>1. PICK k \in Nat : n = k * Block
    BY <1>3 DEF WholeBlocks
  <2> QED BY <1>1, <2>1
<1> QED BY <1>2, <1>3

LEMMA WholeSum ==
  ASSUME FileAssumption, NEW m \in Nat, NEW n \in Nat, WholeBlocks(m), WholeBlocks(n)
  PROVE  WholeBlocks(m + n)
<1>1. PICK j \in Nat : m = j * Block
  BY DEF WholeBlocks
<1>2. PICK k \in Nat : n = k * Block
  BY DEF WholeBlocks
<1>3. m + n = (j + k) * Block /\ j + k \in Nat
  BY <1>1, <1>2 DEF FileAssumption
<1> QED BY <1>3 DEF WholeBlocks

\* Between two lengths of whole blocks there is a block.
LEMMA WholeGap ==
  ASSUME FileAssumption, NEW m \in Nat, NEW n \in Nat, WholeBlocks(m), WholeBlocks(n), m < n
  PROVE  m + Block <= n
<1>1. PICK j \in Nat : m = j * Block
  BY DEF WholeBlocks
<1>2. PICK k \in Nat : n = k * Block
  BY DEF WholeBlocks
<1>b. Block \in Nat
  BY DEF FileAssumption
<1>3. j < k
  <2>1. ASSUME k <= j PROVE FALSE
    <3>1. PICK d \in Nat : j = k + d
      <4>1. j - k \in Nat /\ j = k + (j - k)
        BY <2>1
      <4> QED BY <4>1
    <3>2. m = n + d * Block /\ d * Block \in Nat
      BY <1>1, <1>2, <1>b, <3>1
    <3> QED BY <3>2
  <2> QED BY <2>1
<1>4. PICK d \in Nat : k = j + 1 + d
  <2>1. k - j - 1 \in Nat /\ k = j + 1 + (k - j - 1)
    BY <1>3
  <2> QED BY <2>1
<1>5. n = m + Block + d * Block /\ d * Block \in Nat
  BY <1>1, <1>2, <1>b, <1>4
<1> QED BY <1>b, <1>5

LEMMA RoundUpOK ==
  ASSUME FileAssumption, NEW n \in Nat
  PROVE  /\ RoundUp(n) \in Nat /\ WholeBlocks(RoundUp(n))
         /\ n <= RoundUp(n) /\ RoundUp(n) < n + Block
<1>b. Block \in Nat /\ Block > 0
  BY DEF FileAssumption
<1> DEFINE k == (n + Block - 1) \div Block
<1>1. /\ k \in Nat /\ k * Block \in Nat
      /\ k * Block <= n + Block - 1 /\ n + Block - 1 < k * Block + Block
  BY <1>b
<1> QED BY <1>b, <1>1 DEF RoundUp, WholeBlocks

\* The one length of whole blocks that is less than a block longer.
LEMMA RoundUpIs ==
  ASSUME FileAssumption, NEW n \in Nat, NEW r \in Nat,
         WholeBlocks(r), n <= r, r < n + Block
  PROVE  RoundUp(n) = r
<1>1. ~(r < RoundUp(n))
  BY RoundUpOK, WholeGap DEF FileAssumption
<1>2. ~(RoundUp(n) < r)
  BY RoundUpOK, WholeGap DEF FileAssumption
<1>3. RoundUp(n) \in Nat
  BY RoundUpOK
<1> QED BY <1>1, <1>2, <1>3

\* Only what follows the whole blocks is rounded.
LEMMA RoundUpRest ==
  ASSUME FileAssumption, NEW m \in Nat, NEW n \in Nat, WholeBlocks(m)
  PROVE  RoundUp(m + n) = m + RoundUp(n)
<1>1. /\ RoundUp(n) \in Nat /\ WholeBlocks(RoundUp(n))
      /\ n <= RoundUp(n) /\ RoundUp(n) < n + Block
  BY RoundUpOK
<1>2. WholeBlocks(m + RoundUp(n))
  BY <1>1, WholeSum
<1> QED BY <1>1, <1>2, RoundUpIs DEF FileAssumption

LEMMA TakeOK ==
  ASSUME FileAssumption, NEW p \in Nat \ {0}
  PROVE  /\ Take(p) \in Nat /\ Take(p) > 0 /\ WholeBlocks(Take(p))
         /\ p < Block => Take(p) = Block
         /\ p >= Block => Take(p) <= p
<1>b. Block \in Nat /\ Block > 0
  BY DEF FileAssumption
<1>1. CASE p < Block
  <2>1. Block = 1 * Block
    BY <1>b
  <2> QED BY <1>1, <1>b, <2>1 DEF Take, WholeBlocks
<1>2. CASE p >= Block
  <2> DEFINE k == p \div Block
  <2>1. k \in Nat /\ k * Block \in Nat /\ k * Block <= p /\ p < k * Block + Block
    BY <1>b
  <2>2. k * Block > 0
    BY <1>2, <1>b, <2>1
  <2> QED BY <1>2, <1>b, <2>1, <2>2 DEF Take, WholeBlocks
<1> QED BY <1>b, <1>1, <1>2

----------------------------------------------------------------------------
(***************************************************************************)
(* The bytes of a file, as sequences.                                      *)
(***************************************************************************)
LEMMA BytesOK ==
  ASSUME NEW ver \in Nat, NEW n \in Nat
  PROVE  /\ Bytes(ver, n) \in Seq(Nat) /\ Len(Bytes(ver, n)) = n
         /\ \A i \in 1..n : Bytes(ver, n)[i] = ver
<1>1. Bytes(ver, n) \in [1..n -> Nat]
  BY DEF Bytes
<1>2. Bytes(ver, n) \in Seq(Nat)
  BY <1>1
<1>3. DOMAIN Bytes(ver, n) = 1..n
  BY <1>1
<1> QED BY <1>2, <1>3 DEF Bytes

LEMMA NoBytes == \A ver \in Nat : Bytes(ver, 0) = << >>
BY DEF Bytes

LEMMA WriteAtEnd ==
  ASSUME NEW ver \in Nat, NEW n \in Nat, NEW bs \in Seq(Nat),
         \A i \in 1..Len(bs) : bs[i] = ver
  PROVE  WriteAt(Bytes(ver, n), n, bs) = Bytes(ver, n + Len(bs))
<1>1. Len(Bytes(ver, n)) = n /\ Len(bs) \in Nat
  BY BytesOK
<1> DEFINE w == WriteAt(Bytes(ver, n), n, bs)
<1>2. w = [i \in 1..(n + Len(bs)) |->
              IF i \in n + 1..n + Len(bs) THEN bs[i - n]
              ELSE IF i <= n THEN Bytes(ver, n)[i] ELSE 0]
  BY <1>1 DEF WriteAt
<1>3. ASSUME NEW i \in 1..(n + Len(bs)) PROVE w[i] = ver
  <2>1. CASE i \in n + 1..n + Len(bs)
    <3>1. i - n \in 1..Len(bs)
      BY <1>1, <2>1
    <3> QED BY <1>2, <2>1, <3>1
  <2>2. CASE i \notin n + 1..n + Len(bs)
    <3>1. i \in 1..n /\ i <= n
      BY <1>1, <2>2
    <3> QED BY <1>2, <2>2, <3>1 DEF Bytes
  <2> QED BY <2>1, <2>2
<1> HIDE DEF w
<1>4. w = [i \in 1..(n + Len(bs)) |-> w[i]]
  BY <1>2 DEF w
<1> QED BY <1>3, <1>4 DEF Bytes, w

----------------------------------------------------------------------------
(***************************************************************************)
(* What one write adds to the stream and one read takes off it.  Only the  *)
(* last block is padded, so the stream of a file's first n bytes has these *)
(* many.                                                                   *)
(***************************************************************************)
StreamOf(size, n) == IF n < size THEN n ELSE RoundUp(size)

\* Bytes of the next write, and their length in the stream.
Chunk(left)   == IF left < SendBuf THEN left ELSE SendBuf
Written(left) == IF Chunk(left) = left THEN RoundUp(Chunk(left)) ELSE Chunk(left)

\* Room of the next read, and what it keeps of the blocks it takes.
Room(rest)   == IF rest < RecvBuf THEN rest ELSE RecvBuf
Useful(rest) == IF Take(Room(rest)) < Room(rest) THEN Take(Room(rest)) ELSE Room(rest)

LEMMA OneWrite ==
  ASSUME FileAssumption, NEW size \in Nat, NEW left \in Nat \ {0}, left <= size,
         WholeBlocks(size - left),
         NEW n, n = Chunk(left), NEW w, w = Written(left)
  PROVE  /\ n \in Nat \ {0} /\ n <= left /\ w \in Nat /\ n <= w /\ w % Block = 0
         /\ n < left => w = n
         /\ StreamOf(size, size - left + n) = StreamOf(size, size - left) + w
         /\ size - left + n < size => WholeBlocks(size - left + n)
<1> USE DEF Chunk, Written
<1>1. SendBuf \in Nat \ {0} /\ WholeBlocks(SendBuf)
  BY WholeMod DEF FileAssumption
<1>2. n \in Nat \ {0} /\ n <= left /\ size - left \in Nat
  BY <1>1
<1>3. RoundUp(n) \in Nat /\ WholeBlocks(RoundUp(n)) /\ n <= RoundUp(n)
  BY <1>2, RoundUpOK
<1>4. CASE n = left
  <2>1. RoundUp(size - left + n) = size - left + RoundUp(n)
    BY <1>2, RoundUpRest
  <2>2. RoundUp(n) % Block = 0
    BY <1>3, WholeMod
  <2> QED BY <1>2, <1>3, <1>4, <2>1, <2>2 DEF StreamOf
<1>5. CASE n # left
  <2>1. n = SendBuf /\ n < left /\ w = n
    BY <1>1, <1>5
  <2>2. n % Block = 0
    BY <2>1 DEF FileAssumption
  <2>3. WholeBlocks(size - left + n)
    BY <1>1, <1>2, <2>1, WholeSum
  <2> QED BY <1>2, <2>1, <2>2, <2>3 DEF StreamOf
<1> QED BY <1>4, <1>5

LEMMA OneRead ==
  ASSUME FileAssumption, NEW size \in Nat, NEW upto \in Nat, upto < size,
         WholeBlocks(upto),
         NEW p, p = Room(size - upto), NEW n, n = Take(p),
         NEW m, m = Useful(size - upto)
  PROVE  /\ n \in Nat \ {0} /\ m \in Nat \ {0} /\ m <= n /\ upto + m <= size
         /\ m < n => upto + m = size
         /\ upto + m < size => WholeBlocks(upto + m)
         /\ StreamOf(size, upto + m) = upto + n
         /\ upto + n <= RoundUp(size)
<1> USE DEF Room, Useful
<1>b. Block \in Nat /\ Block > 0 /\ RecvBuf \in Nat /\ RecvBuf > 0
  BY DEF FileAssumption
<1>1. p \in Nat \ {0} /\ upto + p <= size
  BY <1>b
<1>2. /\ n \in Nat /\ n > 0 /\ WholeBlocks(n)
      /\ p < Block => n = Block
      /\ p >= Block => n <= p
  BY <1>1, TakeOK
<1>3. WholeBlocks(upto + n)
  BY <1>2, WholeSum
<1>4. /\ RoundUp(size) \in Nat /\ size <= RoundUp(size)
  BY RoundUpOK
<1>5. CASE p >= Block
  <2>1. m = n /\ upto + n <= size
    BY <1>1, <1>2, <1>5, <1>b
  <2>2. upto + n = size => RoundUp(size) = size
    BY <1>3, <1>b, RoundUpIs
  <2> QED BY <1>1, <1>2, <1>3, <1>4, <2>1, <2>2 DEF StreamOf
<1>6. CASE p < Block
  <2>1. Block <= RecvBuf
    <3>1. WholeBlocks(RecvBuf)
      BY WholeMod DEF FileAssumption
    <3>2. WholeBlocks(0)
      BY WholeMod, <1>b
    <3> QED BY <1>b, <3>1, <3>2, WholeGap
  <2>2. p = size - upto /\ n = Block /\ m = p
    BY <1>1, <1>2, <1>6, <1>b, <2>1
  <2>3. upto + n \in Nat /\ size <= upto + n /\ upto + n < size + Block
    BY <1>1, <1>6, <1>b, <2>2
  <2>4. RoundUp(size) = upto + n
    BY <1>3, <2>3, RoundUpIs
  <2> QED BY <1>1, <1>2, <1>4, <1>b, <2>2, <2>4 DEF StreamOf
<1> QED BY <1>5, <1>6, <1>b, <1>1

LEMMA Joined ==
  ASSUME NEW s \in Seq(Nat), NEW t \in Seq(Nat)
  PROVE  /\ s \o t \in Seq(Nat) /\ Len(s \o t) = Len(s) + Len(t)
         /\ \A i \in 1..Len(s) : (s \o t)[i] = s[i]
         /\ \A j \in 1..Len(t) : (s \o t)[Len(s) + j] = t[j]
<1>1. /\ s \o t \in Seq(Nat) /\ Len(s \o t) = Len(s) + Len(t)
      /\ \A i \in 1..Len(s) + Len(t) :
           (s \o t)[i] = IF i <= Len(s) THEN s[i] ELSE t[i - Len(s)]
  BY ConcatProperties
<1>2. Len(s) \in Nat /\ Len(t) \in Nat
  OBVIOUS
<1> DEFINE r == s \o t
<1> HIDE DEF r
<1>3. \A i \in 1..Len(s) + Len(t) :
           r[i] = IF i <= Len(s) THEN s[i] ELSE t[i - Len(s)]
  BY <1>1 DEF r
<1>4. ASSUME NEW i \in 1..Len(s) PROVE r[i] = s[i]
  <2>1. i \in 1..Len(s) + Len(t) /\ i <= Len(s)
    BY <1>2
  <2> QED BY <1>3, <2>1
<1>5. ASSUME NEW j \in 1..Len(t) PROVE r[Len(s) + j] = t[j]
  <2>1. /\ Len(s) + j \in 1..Len(s) + Len(t) /\ ~(Len(s) + j <= Len(s))
        /\ Len(s) + j - Len(s) = j
    BY <1>2
  <2> QED BY <1>3, <2>1
<1> QED BY <1>1, <1>4, <1>5 DEF r

\* What a write of n bytes, w with the padding, makes of the pipe.
Extended(s, ver, n, w) == s \o Bytes(ver, n) \o Bytes(0, w - n)

Longer(r, s, ver, n, w) ==
  /\ r \in Seq(Nat) /\ Len(r) = Len(s) + w
  /\ \A i \in 1..Len(s) : r[i] = s[i]
  /\ \A j \in 1..n : r[Len(s) + j] = ver

LEMMA Appended ==
  ASSUME NEW s \in Seq(Nat), NEW ver \in Nat, NEW n \in Nat, NEW w \in Nat, n <= w
  PROVE  Longer(Extended(s, ver, n, w), s, ver, n, w)
<1> DEFINE a == Bytes(ver, n)
           b == Bytes(0, w - n)
           sa == s \o a
           r == sa \o b
<1>1. /\ a \in Seq(Nat) /\ Len(a) = n /\ (\A j \in 1..n : a[j] = ver)
      /\ b \in Seq(Nat) /\ Len(b) = w - n
  <2>1. w - n \in Nat
    OBVIOUS
  <2> QED BY <2>1, BytesOK
<1> HIDE DEF a, b
<1>2. /\ sa \in Seq(Nat) /\ Len(sa) = Len(s) + n
      /\ \A i \in 1..Len(s) : sa[i] = s[i]
      /\ \A j \in 1..n : sa[Len(s) + j] = a[j]
  BY <1>1, Joined
<1> HIDE DEF sa
<1>3. /\ r \in Seq(Nat) /\ Len(r) = Len(sa) + (w - n)
      /\ \A i \in 1..Len(sa) : r[i] = sa[i]
  <2>1. sa \in Seq(Nat) /\ b \in Seq(Nat) /\ Len(b) = w - n
    BY <1>1, <1>2
  <2>2. /\ sa \o b \in Seq(Nat) /\ Len(sa \o b) = Len(sa) + Len(b)
        /\ \A i \in 1..Len(sa) : (sa \o b)[i] = sa[i]
    BY <2>1, Joined, Zenon
  <2> QED BY <2>1, <2>2, Zenon DEF r
<1> HIDE DEF r
<1>4. Len(s) \in Nat
  OBVIOUS
<1>5. ASSUME NEW i \in 1..Len(s) PROVE r[i] = s[i]
  <2>1. i \in 1..Len(sa)
    BY <1>2, <1>4
  <2>2. r[i] = sa[i]
    BY <1>3, <2>1
  <2>3. sa[i] = s[i]
    BY <1>2
  <2> QED BY <2>2, <2>3
<1>6. ASSUME NEW j \in 1..n PROVE r[Len(s) + j] = ver
  <2>1. Len(s) + j \in 1..Len(sa)
    BY <1>2, <1>4
  <2> QED BY <1>1, <1>2, <1>3, <2>1
<1>7. Len(r) = Len(s) + w
  BY <1>2, <1>3, <1>4
<1>8. Longer(r, s, ver, n, w)
  BY <1>3, <1>5, <1>6, <1>7 DEF Longer
<1> QED BY <1>8 DEF Extended, r, sa, a, b

LEMMA Cut ==
  ASSUME NEW s \in Seq(Nat), NEW n \in Nat, n <= Len(s)
  PROVE  /\ SubSeq(s, n + 1, Len(s)) \in Seq(Nat)
         /\ Len(SubSeq(s, n + 1, Len(s))) = Len(s) - n
         /\ \A i \in 1..(Len(s) - n) : SubSeq(s, n + 1, Len(s))[i] = s[n + i]
         /\ SubSeq(s, 1, n) \in Seq(Nat) /\ Len(SubSeq(s, 1, n)) = n
         /\ \A i \in 1..n : SubSeq(s, 1, n)[i] = s[i]
OBVIOUS

----------------------------------------------------------------------------
(***************************************************************************)
(* The steps of a transfer, with the lengths they work out named.          *)
(***************************************************************************)
\* A write of n bytes of the file, w with the padding.
WriteChunk(t, n, w) ==
  /\ pipe' = [pipe EXCEPT ![t] = @ \o Bytes(file.ver, n) \o Bytes(0, w - n)]
  /\ out' = [out EXCEPT ![t] = [pc |-> "send", left |-> @.left - n]]

LEMMA WriteEffect ==
  ASSUME NEW t, SendChunk(t),
         NEW n, n = Available(t, IF out[t].left < SendBuf THEN out[t].left ELSE SendBuf),
         NEW w, w = IF n = out[t].left THEN RoundUp(n) ELSE n
  PROVE  /\ out[t].pc = "send" /\ out[t].left > 0 /\ Reading(t)
         /\ UNCHANGED <<file, serverVars, header, in, dest, holder, sent, spoiled>>
         /\ \/ (n = 0 \/ w % Block # 0) /\ EndOut(t) /\ UNCHANGED pipe
            \/ WriteChunk(t, n, w)
BY Zenon DEF SendChunk, WriteChunk

LEMMA ReadEffect ==
  ASSUME NEW t, CopyChunk(t),
         NEW p, p = Wanted(t), NEW n, n = Take(p), NEW m, m = IF n < p THEN n ELSE p
  PROVE  /\ in[t].pc = "copy" /\ in[t].got < header[t] /\ Len(pipe[t]) >= n
         /\ dest' = WriteAt(dest, in[t].got, SubSeq(pipe[t], 1, m))
         /\ pipe' = [pipe EXCEPT ![t] = SubSeq(@, n + 1, Len(@))]
         /\ in' = [in EXCEPT ![t] = [pc |-> "copy", got |-> @.got + m]]
         /\ UNCHANGED <<file, serverVars, out, header, holder, sent, spoiled>>
BY Zenon DEF CopyChunk

----------------------------------------------------------------------------
(***************************************************************************)
(* What the state of a transfer is made of.                                *)
(***************************************************************************)
FileStates == [ver : Nat, size : Nat]
OutStates  == [pc : {"none", "serve", "send", "closed"}, left : Int]
InStates   == [pc : {"idle", "header", "copy", "ok", "failed"}, got : Int]

FileType ==
  /\ file \in FileStates
  /\ out \in [Pulls -> OutStates]
  /\ header \in [Pulls -> Int]
  /\ pipe = [t \in Pulls |-> pipe[t]]
  /\ in \in [Pulls -> InStates]
  /\ sent \in [Pulls -> FileStates]

LEMMA FileTypeInit == ASSUME FileInit, FileAssumption PROVE FileType
BY DEF FileInit, FileAssumption, FileType, FileStates, OutStates, InStates,
  NoSize, NoFile

LEMMA OutEnds ==
  ASSUME FileType, NEW t \in Pulls, EndOut(t) PROVE out' \in [Pulls -> OutStates]
BY DEF FileType, EndOut, OutStates

LEMMA InEnds ==
  ASSUME FileType, NEW t \in Pulls, NEW how \in {"ok", "failed"}, EndIn(t, how),
         UNCHANGED <<file, out>>
  PROVE  FileType'
<1>1. [pc |-> how, got |-> 0] \in InStates
  BY DEF InStates
<1>2. NoSize \in Int /\ NoFile \in FileStates
  BY DEF NoSize, NoFile, FileStates
<1>3. (IF how = "ok" THEN sent[t] ELSE NoFile) \in FileStates
  BY <1>2 DEF FileType
<1> QED BY <1>1, <1>2, <1>3 DEF EndIn, FileType

LEMMA FileTypeStep == ASSUME FileAssumption, FileType, [FileNext]_fileVars PROVE FileType'
<1>1. ASSUME NEW k \in 1..Managers, ServerStep(k) PROVE FileType'
  BY <1>1 DEF ServerStep, Listen, CloseListener, FileType
<1>2. CASE StopManager \/ StartManager \/ FileTerminated \/ UNCHANGED fileVars
  BY <1>2 DEF StopManager, StartManager, FileTerminated, FileType
<1>3. ASSUME NEW size \in Sizes, Rewrite(size) PROVE FileType'
  <2>1. [ver |-> file.ver + 1, size |-> size] \in FileStates
    BY DEF FileType, FileStates, FileAssumption
  <2> QED BY <1>3, <2>1 DEF Rewrite, FileType
<1>4. ASSUME NEW t \in Pulls, Finish(t) \/ BreakOut(t) PROVE FileType'
  BY <1>4, OutEnds DEF Finish, BreakOut, FileType
<1>5. ASSUME NEW t \in Pulls, SendHeader(t) PROVE FileType'
  <2>1. CASE EndOut(t) /\ UNCHANGED <<header, sent>>
    BY <1>5, <2>1, OutEnds DEF SendHeader, FileType
  <2>2. CASE ~(EndOut(t) /\ UNCHANGED <<header, sent>>)
    <3>1. /\ out' = [out EXCEPT ![t] = [pc |-> "send", left |-> file.size]]
          /\ header' = [header EXCEPT ![t] = file.size]
          /\ sent' = [sent EXCEPT ![t] = file]
          /\ UNCHANGED <<file, pipe, in>>
      BY <1>5, <2>2 DEF SendHeader
    <3>2. file.size \in Int /\ [pc |-> "send", left |-> file.size] \in OutStates
      BY DEF FileType, FileStates, OutStates
    <3> QED BY <3>1, <3>2 DEF FileType
  <2> QED BY <2>1, <2>2
<1>6. ASSUME NEW t \in Pulls, SendChunk(t) PROVE FileType'
  <2> DEFINE n == Available(t, IF out[t].left < SendBuf THEN out[t].left ELSE SendBuf)
             w == IF n = out[t].left THEN RoundUp(n) ELSE n
  <2>1. /\ UNCHANGED <<file, header, in, sent>>
        /\ \/ EndOut(t) /\ UNCHANGED pipe
           \/ WriteChunk(t, n, w)
    BY <1>6, WriteEffect, Zenon
  <2>2. n \in Int
    <3>1. out[t].left \in Int /\ SendBuf \in Int /\ file.size \in Int /\ sent[t].size \in Int
      BY DEF FileType, FileStates, OutStates, FileAssumption
    <3> QED BY <3>1 DEF Available
  <2> HIDE DEF n, w
  <2>3. [pc |-> "send", left |-> out[t].left - n] \in OutStates
    BY <2>2 DEF FileType, OutStates
  <2> QED BY <2>1, <2>3, OutEnds DEF FileType, WriteChunk
<1>7. ASSUME NEW t \in Pulls, Dial(t) PROVE FileType'
  <2>1. [pc |-> "header", got |-> 0] \in InStates /\ [pc |-> "serve", left |-> 0] \in OutStates
    BY DEF InStates, OutStates
  <2> QED BY <1>7, <2>1 DEF Dial, FileType
<1>8. ASSUME NEW t \in Pulls, DialFails(t) \/ CopyFails(t) \/ Offer(t) \/ BreakIn(t)
      PROVE  FileType'
  BY <1>8, InEnds DEF DialFails, CopyFails, Offer, BreakIn
<1>9. ASSUME NEW t \in Pulls, ReadHeader(t) PROVE FileType'
  <2>1. CASE EndIn(t, "failed")
    BY <1>9, <2>1, InEnds DEF ReadHeader
  <2>2. CASE ~EndIn(t, "failed")
    <3>1. [pc |-> "copy", got |-> 0] \in InStates
      BY DEF InStates
    <3> QED BY <1>9, <2>2, <3>1 DEF ReadHeader, FileType
  <2> QED BY <2>1, <2>2
<1>10. ASSUME NEW t \in Pulls, CopyChunk(t) PROVE FileType'
  <2> DEFINE p == Wanted(t)
             n == Take(p)
             m == IF n < p THEN n ELSE p
  <2>1. /\ UNCHANGED <<file, out, header, sent>>
        /\ \E bs : pipe' = [pipe EXCEPT ![t] = bs]
        /\ in' = [in EXCEPT ![t] = [pc |-> "copy", got |-> @.got + m]]
    BY <1>10, ReadEffect, Zenon
  <2>2. m \in Int
    <3>1. header[t] \in Int /\ in[t].got \in Int /\ RecvBuf \in Int /\ Block \in Nat \ {0}
      BY DEF FileType, InStates, FileAssumption
    <3>2. p \in Int
      BY <3>1 DEF Wanted
    <3> HIDE DEF p
    <3>3. n \in Int
      BY <3>1, <3>2 DEF Take
    <3> QED BY <3>2, <3>3
  <2> HIDE DEF m
  <2>3. [pc |-> "copy", got |-> in[t].got + m] \in InStates
    BY <2>2 DEF FileType, InStates
  <2> QED BY <2>1, <2>3 DEF FileType
<1> QED BY <1>1, <1>2, <1>3, <1>4, <1>5, <1>6, <1>7, <1>8, <1>9, <1>10 DEF FileNext, OutStep, InStep

----------------------------------------------------------------------------
(***************************************************************************)
(* The stream of a file while left bytes of it are to be written and upto  *)
(* bytes were read: s is what lies between, and both ends stand between    *)
(* two blocks unless they are at the end of the file.                      *)
(***************************************************************************)
FlowOf(size, ver, left, upto, s) ==
  /\ left \in 0..size /\ upto \in 0..(size - left)
  /\ left > 0 => WholeBlocks(size - left)
  /\ upto < size => WholeBlocks(upto)
  /\ s \in Seq(Nat)
  /\ Len(s) = StreamOf(size, size - left) - StreamOf(size, upto)
  /\ \A i \in 1..Len(s) : upto + i <= size => s[i] = ver

\* A write keeps the stream whole, and is never refused.
LEMMA FlowWrite ==
  ASSUME FileAssumption, NEW size \in Nat, NEW ver \in Nat, NEW left \in Nat \ {0},
         NEW upto, NEW s, FlowOf(size, ver, left, upto, s),
         NEW n, n = Chunk(left), NEW w, w = Written(left)
  PROVE  /\ n \in Nat \ {0} /\ n <= left /\ w % Block = 0
         /\ FlowOf(size, ver, left - n, upto, Extended(s, ver, n, w))
<1>1. left <= size /\ upto \in Nat /\ upto <= size - left /\ WholeBlocks(size - left)
  BY DEF FlowOf
<1>2. s \in Seq(Nat) /\ Len(s) = size - left - upto
  BY <1>1 DEF FlowOf, StreamOf
<1>3. \A i \in 1..Len(s) : upto + i <= size => s[i] = ver
  BY DEF FlowOf
<1>4. /\ n \in Nat \ {0} /\ n <= left /\ w \in Nat /\ n <= w /\ w % Block = 0
      /\ n < left => w = n
      /\ StreamOf(size, size - left + n) = StreamOf(size, size - left) + w
      /\ size - left + n < size => WholeBlocks(size - left + n)
  BY <1>1, OneWrite
<1>a. n \in Nat /\ w \in Nat /\ n <= w /\ n <= left /\ (n < left => w = n)
  BY <1>4
<1>b. left \in Nat /\ left <= size /\ upto \in Nat /\ upto <= size - left
  BY <1>1
<1> DEFINE r == Extended(s, ver, n, w)
<1>5. /\ r \in Seq(Nat) /\ Len(r) = Len(s) + w
      /\ \A i \in 1..Len(s) : r[i] = s[i]
      /\ \A j \in 1..n : r[Len(s) + j] = ver
  <2>1. n \in Nat /\ n <= w
    BY <1>4
  <2>2. Longer(r, s, ver, n, w)
    BY <1>2, <1>4, <2>1, Appended, Zenon
  <2> HIDE DEF r
  <2> QED BY <2>2 DEF Longer
<1> HIDE DEF r
<1>6. Len(r) = Len(s) + w
  BY <1>5
<1>7. ASSUME NEW i \in 1..Len(r), upto + i <= size PROVE r[i] = ver
  <2>1. CASE i <= Len(s)
    <3>1. i \in 1..Len(s)
      BY <2>1, <1>2
    <3> QED BY <1>3, <1>5, <1>7, <3>1
  <2>2. CASE i > Len(s)
    <3>1. i \in Nat /\ Len(s) \in Nat /\ i - Len(s) \in Nat \ {0} /\ i <= Len(s) + w
      BY <1>2, <1>a, <1>6, <2>2
    <3>2. i - Len(s) <= n
      <4>1. CASE n = w
        BY <1>a, <3>1, <4>1
      <4>2. CASE n = left
        <5>1. upto + i <= size /\ Len(s) = size - left - upto
          BY <1>2, <1>7
        <5> QED BY <1>b, <3>1, <4>2, <5>1
      <4> QED BY <1>a, <1>b, <4>1, <4>2
    <3>3. i - Len(s) \in 1..n /\ i = Len(s) + (i - Len(s))
      BY <1>a, <3>1, <3>2
    <3> QED BY <1>5, <3>3
  <2> QED BY <1>2, <1>a, <1>6, <2>1, <2>2
<1>8. size - (left - n) = size - left + n /\ left - n \in 0..size
      /\ upto \in 0..(size - (left - n))
  BY <1>a, <1>b
<1>9. Len(r) = StreamOf(size, size - left + n) - StreamOf(size, upto)
  <2>1. StreamOf(size, size - left) = size - left /\ StreamOf(size, upto) = upto
    BY <1>b DEF StreamOf
  <2>2. StreamOf(size, size - left + n) = StreamOf(size, size - left) + w
    BY <1>4
  <2>3. Len(s) = size - left - upto
    BY <1>2
  <2> QED BY <1>a, <1>b, <1>6, <2>1, <2>2, <2>3
<1>10. left - n > 0 => WholeBlocks(size - left + n)
  BY <1>1, <1>4
<1>11. upto < size => WholeBlocks(upto)
  BY DEF FlowOf
<1> QED BY <1>4, <1>5, <1>7, <1>8, <1>9, <1>10, <1>11 DEF FlowOf, r

\* Nothing is sent yet.
LEMMA FlowStart ==
  ASSUME FileAssumption, NEW size \in Nat, NEW ver PROVE FlowOf(size, ver, size, 0, <<>>)
<1>1. WholeBlocks(0)
  BY WholeMod DEF FileAssumption
<1>2. Len(<<>>) = 0 /\ <<>> \in Seq(Nat) /\ size - size = 0
  OBVIOUS
<1>3. StreamOf(size, 0) - StreamOf(size, 0) = 0
  BY RoundUpOK DEF StreamOf
<1>4. \A i \in 1..Len(<<>>) : 0 + i <= size => <<>>[i] = ver
  BY <1>2
<1> QED BY <1>1, <1>2, <1>3, <1>4 DEF FlowOf

\* What a read of n bytes leaves, m of them of the file.
ReadOf(size, ver, left, upto, s, n, m) ==
  /\ m \in Nat /\ SubSeq(s, 1, m) \in Seq(Nat) /\ Len(SubSeq(s, 1, m)) = m
  /\ \A i \in 1..m : SubSeq(s, 1, m)[i] = ver
  /\ FlowOf(size, ver, left, upto + m, SubSeq(s, n + 1, Len(s)))

\* A read takes the next bytes of the file, and more of the stream only at
\* the end.
LEMMA FlowRead ==
  ASSUME FileAssumption, NEW size \in Nat, NEW ver \in Nat, NEW left, NEW upto, NEW s,
         FlowOf(size, ver, left, upto, s), upto < size,
         NEW n, n = Take(Room(size - upto)), NEW m, m = Useful(size - upto)
  PROVE  /\ left = 0 => n <= Len(s)
         /\ n <= Len(s) => ReadOf(size, ver, left, upto, s, n, m)
<1>1. /\ left \in Nat /\ left <= size /\ upto \in Nat /\ upto <= size - left
      /\ WholeBlocks(upto)
  BY DEF FlowOf
<1>2. s \in Seq(Nat) /\ Len(s) \in Nat /\ Len(s) = StreamOf(size, size - left) - upto
  BY <1>1 DEF FlowOf, StreamOf
<1>3. \A i \in 1..Len(s) : upto + i <= size => s[i] = ver
  BY DEF FlowOf
<1>4. /\ n \in Nat \ {0} /\ m \in Nat \ {0} /\ m <= n /\ upto + m <= size
      /\ m < n => upto + m = size
      /\ upto + m < size => WholeBlocks(upto + m)
      /\ StreamOf(size, upto + m) = upto + n
      /\ upto + n <= RoundUp(size)
  BY <1>1, OneRead
<1>5. RoundUp(size) \in Nat /\ size <= RoundUp(size)
  BY RoundUpOK
<1>a. /\ n \in Nat \ {0} /\ m \in Nat \ {0} /\ m <= n /\ upto + m <= size
      /\ m < n => upto + m = size
  BY <1>4
<1>b. left \in Nat /\ left <= size /\ upto \in Nat /\ upto <= size - left
  BY <1>1
<1>c. /\ left = 0 => StreamOf(size, size - left) = RoundUp(size)
      /\ left # 0 => StreamOf(size, size - left) = size - left
  BY <1>b DEF StreamOf
<1>d. /\ left = 0 => Len(s) = RoundUp(size) - upto
      /\ left # 0 => Len(s) = size - left - upto
  BY <1>2, <1>c
<1>6. left = 0 => n <= Len(s)
  <2>1. upto + n <= RoundUp(size)
    BY <1>4
  <2> QED BY <1>a, <1>b, <1>5, <1>d, <2>1
<1>7. ASSUME n <= Len(s)
      PROVE  /\ SubSeq(s, 1, m) \in Seq(Nat) /\ Len(SubSeq(s, 1, m)) = m
             /\ \A i \in 1..m : SubSeq(s, 1, m)[i] = ver
  <2>1. /\ SubSeq(s, 1, m) \in Seq(Nat) /\ Len(SubSeq(s, 1, m)) = m
        /\ \A i \in 1..m : SubSeq(s, 1, m)[i] = s[i]
    <3>1. m \in Nat /\ m <= Len(s)
      BY <1>2, <1>a, <1>7
    <3> QED BY <1>2, <3>1, Cut
  <2>2. \A i \in 1..m : i \in 1..Len(s) /\ upto + i <= size
    <3>1. Len(s) \in Nat
      BY <1>2
    <3>2. m \in Nat /\ m <= Len(s) /\ upto \in Nat /\ upto + m <= size /\ size \in Nat
      BY <1>a, <1>b, <1>7, <3>1
    <3> QED BY <3>1, <3>2
  <2> QED BY <1>3, <2>1, <2>2
<1>8. ASSUME n <= Len(s)
      PROVE  FlowOf(size, ver, left, upto + m, SubSeq(s, n + 1, Len(s)))
  <2> DEFINE r == SubSeq(s, n + 1, Len(s))
  <2>1. /\ r \in Seq(Nat) /\ Len(r) = Len(s) - n
        /\ \A i \in 1..(Len(s) - n) : r[i] = s[n + i]
    <3>1. n \in Nat
      BY <1>a
    <3> QED BY <1>2, <1>8, <3>1, Cut, Zenon
  <2> HIDE DEF r
  <2>2. upto + m \in 0..(size - left)
    <3>1. CASE left = 0
      BY <1>a, <1>b, <3>1
    <3>2. CASE left # 0
      BY <1>a, <1>b, <1>8, <1>d, <3>2
    <3> QED BY <3>1, <3>2
  <2>3. Len(r) = StreamOf(size, size - left) - StreamOf(size, upto + m)
    <3>1. StreamOf(size, upto + m) = upto + n
      BY <1>4
    <3>2. StreamOf(size, size - left) \in Int
      BY <1>b, <1>5, <1>c
    <3>3. Len(s) = StreamOf(size, size - left) - upto /\ Len(r) = Len(s) - n
      BY <1>2, <2>1
    <3>4. n \in Nat /\ upto \in Nat /\ m \in Nat /\ Len(s) \in Nat
      BY <1>2, <1>a, <1>b
    <3> HIDE DEF StreamOf, FlowOf
    <3> QED BY <3>1, <3>2, <3>3, <3>4
  <2>4. ASSUME NEW i \in 1..Len(r), upto + m + i <= size PROVE r[i] = ver
    <3>1. i \in 1..(Len(s) - n) /\ i \in Nat /\ i > 0
      BY <1>2, <1>a, <2>1
    <3>2. m = n
      BY <1>a, <1>b, <2>4, <3>1
    <3>3. n + i \in 1..Len(s)
      <4>1. Len(s) \in Nat /\ n \in Nat
        BY <1>2, <1>a
      <4> QED BY <3>1, <4>1
    <3>4. upto + (n + i) <= size
      BY <1>a, <1>b, <2>4, <3>1, <3>2
    <3> QED BY <1>3, <2>1, <3>1, <3>3, <3>4
  <2>5. left \in 0..size /\ (left > 0 => WholeBlocks(size - left))
    BY DEF FlowOf
  <2> QED BY <1>4, <2>1, <2>2, <2>3, <2>4, <2>5 DEF FlowOf, r
<1> QED BY <1>4, <1>6, <1>7, <1>8 DEF ReadOf

----------------------------------------------------------------------------
(***************************************************************************)
(* The inductive invariant of the pulls that nothing spoiled.              *)
(***************************************************************************)
\* The server works on a pull, or is done with it.
Flow(t) ==
  /\ header[t] = sent[t].size
  /\ \/ out[t].pc = "send" /\ file = sent[t]
     \/ out[t].pc = "closed" /\ out[t].left = 0
  /\ FlowOf(sent[t].size, sent[t].ver, out[t].left, in[t].got, pipe[t])

\* No byte of the file is on its way yet.
Unserved(t) == header[t] = NoSize /\ pipe[t] = <<>> /\ out[t].pc \in {"none", "serve"}

\* Where a pull that nothing spoiled stands.
SoundPull(t) ==
  /\ in[t].pc \in {"idle", "header"} => in[t].got = 0
  /\ in[t].pc = "idle" => Unserved(t) /\ out[t].pc = "none"
  /\ in[t].pc = "header" => (Unserved(t) /\ out[t].pc = "serve") \/ Flow(t)
  /\ in[t].pc = "copy" => Flow(t) /\ dest = Bytes(sent[t].ver, in[t].got)
  /\ in[t].pc # "failed"

\* No other pull writes the file this one copies to.
OnlyOne(t) == in[t].pc = "copy" => \A u \in Pulls : in[u].pc = "copy" => u = t

\* The file is as the last pull left it.
Held ==
  holder # NoHolder =>
    /\ holder \in Pulls
    /\ holder \notin spoiled =>
         /\ in[holder].pc = "ok" /\ \A u \in Pulls : in[u].pc # "copy"
         /\ dest = Bytes(sent[holder].ver, sent[holder].size)

PullInv ==
  /\ FileType
  /\ \A t \in Pulls \ spoiled : SoundPull(t) /\ OnlyOne(t)
  /\ Held

TransferStep(t) ==
  OutStep(t) \/ InStep(t) \/ Dial(t) \/ DialFails(t) \/ BreakOut(t) \/ BreakIn(t)

----------------------------------------------------------------------------
(***************************************************************************)
(* A step of one pull is none of the others', but for the file they all    *)
(* write.                                                                  *)
(***************************************************************************)
Same(u) == /\ in'[u] = in[u] /\ out'[u] = out[u] /\ header'[u] = header[u]
           /\ pipe'[u] = pipe[u] /\ sent'[u] = sent[u]

LEMMA Others ==
  ASSUME FileType, NEW t \in Pulls, NEW u \in Pulls, u # t, TransferStep(t)
  PROVE  Same(u) /\ file' = file /\ spoiled \subseteq spoiled'
<1>1. CASE SendHeader(t)
  BY <1>1 DEF SendHeader, EndOut, Spoil, FileType, Same
<1>2. CASE SendChunk(t)
  <2>1. /\ UNCHANGED <<file, header, in, sent, spoiled>>
        /\ (EndOut(t) /\ UNCHANGED pipe) \/ \E n, w : WriteChunk(t, n, w)
    BY <1>2, WriteEffect, Zenon
  <2> QED BY <2>1 DEF EndOut, WriteChunk, FileType, Same
<1>3. CASE Finish(t) \/ BreakOut(t)
  BY <1>3 DEF Finish, BreakOut, EndOut, Spoil, FileType, Same
<1>4. CASE CopyChunk(t)
  <2>1. /\ UNCHANGED <<file, header, out, sent, spoiled>>
        /\ \E bs : pipe' = [pipe EXCEPT ![t] = bs]
        /\ \E i : in' = [in EXCEPT ![t] = i]
    BY <1>4, ReadEffect, Zenon
  <2> QED BY <2>1 DEF FileType, Same
<1>5. CASE ReadHeader(t)
  BY <1>5 DEF ReadHeader, EndIn, Spoil, FileType, Same
<1>6. CASE CopyFails(t) \/ Offer(t) \/ DialFails(t) \/ BreakIn(t)
  BY <1>6 DEF CopyFails, Offer, DialFails, BreakIn, EndIn, Spoil, FileType, Same
<1>7. CASE Dial(t)
  BY <1>7 DEF Dial, FileType, Same
<1> QED BY <1>1, <1>2, <1>3, <1>4, <1>5, <1>6, <1>7 DEF TransferStep, OutStep, InStep

\* What else a pull's state depends on is the file that is sent, and the
\* one that is written.
LEMMA FlowFrame ==
  ASSUME NEW t, Flow(t), out'[t] = out[t], header'[t] = header[t], pipe'[t] = pipe[t],
         sent'[t] = sent[t], in'[t].got = in[t].got,
         file' = file \/ out[t].pc # "send"
  PROVE  Flow(t)'
BY DEF Flow

LEMMA SoundFrame ==
  ASSUME NEW t, SoundPull(t), Same(t),
         file' = file \/ out[t].pc # "send",
         dest' = dest \/ in[t].pc # "copy"
  PROVE  SoundPull(t)'
BY FlowFrame DEF SoundPull, Unserved, Same

----------------------------------------------------------------------------
(***************************************************************************)
(* A pull's own steps.                                                     *)
(***************************************************************************)
LEMMA HeaderSound ==
  ASSUME FileAssumption, FileType, NEW t \in Pulls, SoundPull(t), SendHeader(t),
         t \notin spoiled'
  PROVE  SoundPull(t)'
<1>1. /\ out[t].pc = "serve" /\ in[t].pc \in {"header", "copy"}
      /\ out' = [out EXCEPT ![t] = [pc |-> "send", left |-> file.size]]
      /\ header' = [header EXCEPT ![t] = file.size]
      /\ sent' = [sent EXCEPT ![t] = file]
      /\ UNCHANGED <<file, pipe, in, dest>>
  BY DEF SendHeader, Spoil, Reading
<1>2. /\ out'[t].pc = "send" /\ out'[t].left = file.size /\ header'[t] = file.size
      /\ sent'[t] = file
  BY <1>1 DEF FileType
<1>3. in[t].pc = "header" /\ in[t].got = 0 /\ pipe[t] = <<>>
  BY <1>1 DEF SoundPull, Flow, Unserved
<1>4. file.size \in Nat /\ file.ver \in Nat
  BY DEF FileType, FileStates
<1>5. FlowOf(file.size, file.ver, file.size, 0, <<>>)
  BY <1>4, FlowStart
<1>6. Flow(t)'
  BY <1>1, <1>2, <1>3, <1>5 DEF Flow
<1> QED BY <1>1, <1>3, <1>6 DEF SoundPull

LEMMA WriteSound ==
  ASSUME FileAssumption, FileType, NEW t \in Pulls, SoundPull(t), SendChunk(t)
  PROVE  SoundPull(t)'
<1> DEFINE n == Available(t, IF out[t].left < SendBuf THEN out[t].left ELSE SendBuf)
           w == IF n = out[t].left THEN RoundUp(n) ELSE n
<1>1. /\ out[t].pc = "send" /\ out[t].left > 0 /\ Reading(t)
      /\ UNCHANGED <<file, header, in, dest, sent>>
      /\ \/ (n = 0 \/ w % Block # 0) /\ EndOut(t) /\ UNCHANGED pipe
         \/ WriteChunk(t, n, w)
  BY WriteEffect, Zenon
<1> DEFINE size == sent[t].size
           ver == sent[t].ver
           left == out[t].left
<1>2. in[t].pc \in {"header", "copy"} /\ Flow(t)
  BY <1>1 DEF SoundPull, Unserved, Reading
<1>3. file = sent[t] /\ FlowOf(size, ver, left, in[t].got, pipe[t])
  BY <1>1, <1>2 DEF Flow
<1>4. size \in Nat /\ ver \in Nat
  BY DEF FileType, FileStates
<1>5. left \in Nat \ {0}
  BY <1>1, <1>3 DEF FlowOf
<1>6. n = Chunk(left)
  BY <1>3, <1>4, <1>5 DEF Available, Chunk, FileAssumption
<1>7. w = Written(left)
  BY <1>6 DEF Written
<1> HIDE DEF n, w, size, ver, left
<1>8. /\ n \in Nat \ {0} /\ n <= left /\ w % Block = 0
      /\ FlowOf(size, ver, left - n, in[t].got, Extended(pipe[t], ver, n, w))
  BY <1>3, <1>4, <1>5, <1>6, <1>7, FlowWrite
<1>9. /\ pipe' = [pipe EXCEPT ![t] = @ \o Bytes(file.ver, n) \o Bytes(0, w - n)]
      /\ out' = [out EXCEPT ![t] = [pc |-> "send", left |-> @.left - n]]
  BY <1>1, <1>8 DEF WriteChunk
<1>10. pipe'[t] = Extended(pipe[t], ver, n, w)
  BY <1>3, <1>9 DEF FileType, Extended, ver
<1>11. out'[t].pc = "send" /\ out'[t].left = left - n
  BY <1>9 DEF FileType, left
<1>12. Flow(t)'
  BY <1>1, <1>2, <1>3, <1>8, <1>10, <1>11 DEF Flow, size, ver
<1> QED BY <1>1, <1>2, <1>12 DEF SoundPull

LEMMA ReadSound ==
  ASSUME FileAssumption, FileType, NEW t \in Pulls, SoundPull(t), CopyChunk(t)
  PROVE  SoundPull(t)'
<1> DEFINE size == sent[t].size
           ver == sent[t].ver
           left == out[t].left
           upto == in[t].got
           p == Wanted(t)
           n == Take(p)
           m == IF n < p THEN n ELSE p
<1>1. /\ in[t].pc = "copy" /\ upto < header[t] /\ Len(pipe[t]) >= n
      /\ dest' = WriteAt(dest, upto, SubSeq(pipe[t], 1, m))
      /\ pipe' = [pipe EXCEPT ![t] = SubSeq(@, n + 1, Len(@))]
      /\ in' = [in EXCEPT ![t] = [pc |-> "copy", got |-> @.got + m]]
      /\ UNCHANGED <<file, out, header, sent>>
  BY ReadEffect, Zenon
<1>2. Flow(t) /\ dest = Bytes(ver, upto)
  BY <1>1 DEF SoundPull
<1>3. /\ header[t] = size /\ upto < size
      /\ FlowOf(size, ver, left, upto, pipe[t])
  BY <1>1, <1>2 DEF Flow
<1>4. size \in Nat /\ ver \in Nat /\ upto \in Nat
  <2>1. size \in Nat /\ ver \in Nat
    BY DEF FileType, FileStates
  <2> QED BY <1>3, <2>1 DEF FlowOf
<1>5. p = Room(size - upto)
  BY <1>3 DEF Wanted, Room
<1>6. m = Useful(size - upto) /\ n = Take(Room(size - upto))
  BY <1>5 DEF Useful
<1> DEFINE bs == SubSeq(pipe[t], 1, m)
           rest == SubSeq(pipe[t], n + 1, Len(pipe[t]))
<1>l. n <= Len(pipe[t])
  <2>1. Len(pipe[t]) \in Int
    BY <1>3 DEF FlowOf
  <2>2. n \in Int
    <3>1. p \in Nat \ {0}
      BY <1>3, <1>4, <1>5 DEF Room, FileAssumption
    <3> QED BY <3>1, TakeOK
  <2> QED BY <1>1, <2>1, <2>2
<1> HIDE DEF p, n, m, size, ver, left, upto
<1>r. ReadOf(size, ver, left, upto, pipe[t], n, m)
  BY <1>3, <1>4, <1>6, <1>l, FlowRead
<1>7. /\ m \in Nat /\ bs \in Seq(Nat) /\ Len(bs) = m
      /\ \A i \in 1..m : bs[i] = ver
      /\ FlowOf(size, ver, left, upto + m, rest)
  BY <1>r DEF ReadOf
<1>8. pipe'[t] = rest
  BY <1>1 DEF FileType
<1>9. in'[t].pc = "copy" /\ in'[t].got = upto + m
  BY <1>1 DEF FileType, upto
<1>10. Flow(t)'
  BY <1>1, <1>2, <1>7, <1>8, <1>9 DEF Flow, size, ver, left
<1> HIDE DEF bs
<1>11. WriteAt(Bytes(ver, upto), upto, bs) = Bytes(ver, upto + m)
  <2>1. upto \in Nat /\ ver \in Nat /\ m \in Nat /\ bs \in Seq(Nat) /\ Len(bs) = m
        /\ \A i \in 1..m : bs[i] = ver
    BY <1>4, <1>7, Zenon
  <2>2. \A i \in 1..Len(bs) : bs[i] = ver
    BY <2>1, Zenon
  <2>3. WriteAt(Bytes(ver, upto), upto, bs) = Bytes(ver, upto + Len(bs))
    BY <2>1, <2>2, WriteAtEnd, Zenon
  <2> QED BY <2>1, <2>3, Zenon
<1>12. dest' = Bytes(ver, upto + m)
  BY <1>1, <1>2, <1>11 DEF bs
<1>13. sent'[t].ver = ver
  BY <1>1 DEF ver
<1> QED BY <1>9, <1>10, <1>12, <1>13 DEF SoundPull

\* No step of a pull makes it go wrong, but one that spoils it: the stream
\* does not end early, and an unspoiled pull finds its header in range.
LEMMA OwnSound ==
  ASSUME FileAssumption, FileType, NEW t \in Pulls, SoundPull(t),
         TransferStep(t), t \notin spoiled'
  PROVE  SoundPull(t)'
<1>1. CASE SendHeader(t)
  BY <1>1, HeaderSound
<1>2. CASE SendChunk(t)
  BY <1>2, WriteSound
<1>3. CASE CopyChunk(t)
  BY <1>3, ReadSound
<1>4. CASE Finish(t)
  <2>1. /\ out[t].pc = "send" /\ (out[t].left = 0 \/ ~Reading(t))
        /\ UNCHANGED <<file, header, pipe, in, dest, sent>>
        /\ out'[t] = [pc |-> "closed", left |-> 0]
    BY <1>4 DEF Finish, EndOut, FileType
  <2>2. Flow(t) => out[t].left \in Nat
    BY DEF Flow, FlowOf, FileType, FileStates
  <2>3. Flow(t) /\ out[t].left = 0 => Flow(t)'
    BY <2>1 DEF Flow
  <2>4. in[t].pc \in {"header", "copy"} => Flow(t)
    BY <2>1 DEF SoundPull, Unserved
  <2>5. in[t].pc # "idle"
    BY <2>1 DEF SoundPull
  <2> QED BY <2>1, <2>3, <2>4, <2>5 DEF SoundPull, Reading
<1>5. CASE ReadHeader(t)
  <2>1. in[t].pc = "header" /\ in[t].got = 0
    BY <1>5 DEF ReadHeader, SoundPull
  <2>2. ~(header[t] = NoSize /\ out[t].pc = "closed")
    BY <2>1 DEF SoundPull, Unserved, Flow, NoSize, FileType, FileStates
  <2>3. /\ header[t] \in 1..MaxFile
        /\ in' = [in EXCEPT ![t] = [pc |-> "copy", got |-> 0]]
        /\ dest' = <<>>
        /\ UNCHANGED <<header, pipe, sent, file, out>>
    BY <1>5, <2>2 DEF ReadHeader, Spoil
  <2>4. Flow(t)
    BY <2>1, <2>3 DEF SoundPull, Unserved, NoSize, FileAssumption
  <2>5. in'[t].pc = "copy" /\ in'[t].got = 0
    BY <2>3 DEF FileType
  <2>6. Flow(t)'
    BY <2>1, <2>3, <2>4, <2>5, FlowFrame
  <2>7. sent[t].ver \in Nat
    BY DEF FileType, FileStates
  <2> QED BY <2>3, <2>5, <2>6, <2>7, NoBytes DEF SoundPull
<1>6. CASE CopyFails(t)
  <2>1. /\ in[t].pc = "copy" /\ in[t].got < header[t] /\ out[t].pc = "closed"
        /\ Len(pipe[t]) < Take(Wanted(t))
    BY <1>6 DEF CopyFails
  <2>2. Flow(t)
    BY <2>1 DEF SoundPull
  <2> DEFINE size == sent[t].size
             upto == in[t].got
             n == Take(Room(size - upto))
             m == Useful(size - upto)
  <2>3. /\ header[t] = size /\ upto < size
        /\ FlowOf(size, sent[t].ver, 0, upto, pipe[t])
    BY <2>1, <2>2 DEF Flow
  <2>4. size \in Nat /\ sent[t].ver \in Nat
    BY DEF FileType, FileStates
  <2>5. upto \in Nat /\ Len(pipe[t]) \in Nat
    BY <2>3, <2>4 DEF FlowOf
  <2>6. Wanted(t) = Room(size - upto)
    BY <2>3 DEF Wanted, Room
  <2> HIDE DEF size, upto
  <2>7. n \in Nat
    <3>1. Room(size - upto) \in Nat \ {0}
      BY <2>3, <2>4, <2>5 DEF Room, FileAssumption
    <3> QED BY <3>1, TakeOK
  <2>8. n <= Len(pipe[t])
    <3>1. m = Useful(size - upto) /\ n = Take(Room(size - upto))
      OBVIOUS
    <3> HIDE DEF n, m
    <3> QED BY <2>3, <2>4, <3>1, FlowRead
  <2> QED BY <2>1, <2>5, <2>6, <2>7, <2>8
<1>7. CASE Offer(t)
  <2>1. in'[t].pc = "ok"
    BY <1>7 DEF Offer, EndIn, FileType
  <2> QED BY <2>1 DEF SoundPull
<1>8. CASE Dial(t)
  <2>1. /\ in[t].pc = "idle" /\ in'[t].pc = "header" /\ in'[t].got = 0
        /\ out'[t].pc = "serve" /\ UNCHANGED <<header, pipe>>
    BY <1>8 DEF Dial, FileType
  <2> QED BY <2>1 DEF SoundPull, Unserved
<1>9. CASE DialFails(t) \/ BreakOut(t) \/ BreakIn(t)
  BY <1>9 DEF DialFails, BreakOut, BreakIn, Spoil
<1> QED BY <1>1, <1>2, <1>3, <1>4, <1>5, <1>6, <1>7, <1>8, <1>9
        DEF TransferStep, OutStep, InStep

----------------------------------------------------------------------------
(***************************************************************************)
(* The file that all pulls write.                                          *)
(***************************************************************************)
\* Only a pull that copies, or begins to, touches it.
LEMMA OneWriter ==
  ASSUME FileType, NEW t \in Pulls, TransferStep(t)
  PROVE  \/ /\ dest' = dest /\ holder' = holder
            /\ in'[t].pc = "copy" => in[t].pc = "copy"
         \/ /\ in[t].pc = "copy" /\ in'[t].pc = "copy" /\ holder' = holder
         \/ /\ in'[t].pc = "copy" /\ holder' = NoHolder
            /\ spoiled' = spoiled \cup (IF Copying = {} THEN {} ELSE Copying \cup {t})
         \/ Offer(t)
<1>1. CASE SendHeader(t) \/ Finish(t) \/ BreakOut(t)
  BY <1>1 DEF SendHeader, Finish, BreakOut
<1>2. CASE SendChunk(t)
  <2>1. UNCHANGED <<in, dest, holder>>
    BY <1>2, WriteEffect, Zenon
  <2> QED BY <2>1
<1>3. CASE CopyChunk(t)
  <2>1. /\ in[t].pc = "copy" /\ UNCHANGED holder
        /\ \E m : in' = [in EXCEPT ![t] = [pc |-> "copy", got |-> m]]
    BY <1>3, ReadEffect, Zenon
  <2> QED BY <2>1 DEF FileType
<1>4. CASE ReadHeader(t)
  <2>1. CASE UNCHANGED <<dest, holder>> /\ EndIn(t, "failed")
    BY <2>1 DEF EndIn, FileType
  <2>2. CASE ~(UNCHANGED <<dest, holder>> /\ EndIn(t, "failed"))
    BY <1>4, <2>2 DEF ReadHeader, Spoil, FileType
  <2> QED BY <2>1, <2>2
<1>5. CASE CopyFails(t) \/ DialFails(t) \/ BreakIn(t)
  BY <1>5 DEF CopyFails, DialFails, BreakIn, EndIn, FileType
<1>6. CASE Dial(t)
  BY <1>6 DEF Dial, FileType
<1> QED BY <1>1, <1>2, <1>3, <1>4, <1>5, <1>6 DEF TransferStep, OutStep, InStep

\* A step of t leaves a pull u sound and alone, unless it spoils u.
LEMMA OthersSound ==
  ASSUME PullInv, NEW t \in Pulls, TransferStep(t),
         NEW u \in Pulls \ spoiled', u # t
  PROVE  (SoundPull(u) /\ OnlyOne(u))'
<1>1. Same(u) /\ file' = file /\ u \notin spoiled
  BY Others DEF PullInv
<1>2. FileType /\ SoundPull(u) /\ OnlyOne(u)
  BY <1>1 DEF PullInv
<1>3. in[u].pc = "copy" => in[t].pc # "copy" /\ in'[t].pc # "copy" /\ dest' = dest
  <2> SUFFICES ASSUME in[u].pc = "copy"
               PROVE  in[t].pc # "copy" /\ in'[t].pc # "copy" /\ dest' = dest
    OBVIOUS
  <2>1. in[t].pc # "copy"
    BY <1>2 DEF OnlyOne
  <2>2. u \in Copying
    BY DEF Copying
  <2>3. ~ (spoiled' = spoiled \cup (IF Copying = {} THEN {} ELSE Copying \cup {t}))
    BY <2>2
  <2>4. ~ Offer(t)
    BY <2>1 DEF Offer
  <2> QED BY <1>2, <2>1, <2>3, <2>4, OneWriter
<1>4. SoundPull(u)'
  BY <1>1, <1>2, <1>3, SoundFrame
<1>5. OnlyOne(u)'
  <2> SUFFICES ASSUME in'[u].pc = "copy", NEW v \in Pulls, in'[v].pc = "copy"
               PROVE  v = u
    BY DEF OnlyOne
  <2>1. in[u].pc = "copy"
    BY <1>1 DEF Same
  <2>2. CASE v = t
    BY <1>3, <2>1, <2>2
  <2>3. CASE v # t
    <3>1. in'[v] = in[v]
      BY <1>2, <2>3, Others DEF Same
    <3> QED BY <1>2, <2>1, <3>1 DEF OnlyOne
  <2> QED BY <2>2, <2>3
<1> QED BY <1>4, <1>5

\* An unspoiled pull that begins to copy is the only one.
LEMMA OwnAlone ==
  ASSUME PullInv, NEW t \in Pulls \ spoiled', TransferStep(t)
  PROVE  OnlyOne(t)'
<1>1. FileType
  BY DEF PullInv
<1> SUFFICES ASSUME in'[t].pc = "copy", NEW v \in Pulls, in'[v].pc = "copy", v # t
             PROVE  FALSE
  BY DEF OnlyOne
<1>2. in[v].pc = "copy" /\ v \in Copying
  BY <1>1, Others DEF Same, Copying
<1>3. ~ (spoiled' = spoiled \cup (IF Copying = {} THEN {} ELSE Copying \cup {t}))
  BY <1>2
<1>4. ~ Offer(t)
  BY <1>1 DEF Offer, EndIn, FileType
<1>5. in[t].pc = "copy"
  BY <1>1, <1>3, <1>4, OneWriter
<1>6. spoiled \subseteq spoiled'
  BY <1>1, <1>2, Others
<1> QED BY <1>2, <1>5, <1>6 DEF PullInv, OnlyOne

\* A file that was finished stays as it is until the next pull empties it.
LEMMA HeldStep ==
  ASSUME PullInv, NEW t \in Pulls, TransferStep(t)
  PROVE  Held'
<1>1. FileType /\ Held
  BY DEF PullInv
<1>s. spoiled \subseteq spoiled'
  BY DEF TransferStep, OutStep, InStep, SendHeader, SendChunk, Finish, ReadHeader, CopyChunk,
         CopyFails, Offer, Dial, DialFails, BreakOut, BreakIn, Spoil
<1>2. CASE Offer(t)
  <2>1. /\ in[t].pc = "copy" /\ in[t].got >= header[t] /\ holder' = t
        /\ in'[t].pc = "ok" /\ sent'[t] = sent[t] /\ spoiled' = spoiled /\ dest' = dest
    BY <1>1, <1>2 DEF Offer, EndIn, FileType
  <2> SUFFICES ASSUME t \notin spoiled
               PROVE  /\ \A u \in Pulls : in'[u].pc # "copy"
                      /\ dest = Bytes(sent[t].ver, sent[t].size)
    BY <2>1 DEF Held
  <2>2. Flow(t) /\ dest = Bytes(sent[t].ver, in[t].got) /\ OnlyOne(t)
    BY <2>1 DEF PullInv, SoundPull
  <2>3. in[t].got = sent[t].size
    <3>1. /\ header[t] = sent[t].size /\ sent[t].size \in Nat
          /\ FlowOf(sent[t].size, sent[t].ver, out[t].left, in[t].got, pipe[t])
      BY <1>1, <2>2 DEF Flow, FileType, FileStates
    <3> QED BY <2>1, <3>1 DEF FlowOf
  <2>4. ASSUME NEW u \in Pulls PROVE in'[u].pc # "copy"
    <3>1. CASE u = t
      BY <2>1, <3>1
    <3>2. CASE u # t
      BY <1>1, <2>1, <2>2, <3>2, Others DEF Same, OnlyOne
    <3> QED BY <3>1, <3>2
  <2> QED BY <2>2, <2>3, <2>4
<1>3. CASE ~Offer(t)
  <2> SUFFICES ASSUME holder' # NoHolder
               PROVE  /\ holder' \in Pulls
                      /\ holder' \notin spoiled' =>
                           /\ in'[holder'].pc = "ok" /\ \A u \in Pulls : in'[u].pc # "copy"
                           /\ dest' = Bytes(sent'[holder'].ver, sent'[holder'].size)
    BY DEF Held
  <2>1. holder' = holder /\ holder \in Pulls
    BY <1>1, <1>3, OneWriter DEF Held
  <2> SUFFICES ASSUME holder \notin spoiled
               PROVE  /\ in'[holder].pc = "ok" /\ \A u \in Pulls : in'[u].pc # "copy"
                      /\ dest' = Bytes(sent'[holder].ver, sent'[holder].size)
    BY <2>1, <1>s
  <2>2. /\ in[holder].pc = "ok" /\ \A u \in Pulls : in[u].pc # "copy"
        /\ dest = Bytes(sent[holder].ver, sent[holder].size)
    BY <1>1, <2>1 DEF Held
  <2>3. in'[t].pc # "copy" /\ dest' = dest
    BY <1>1, <1>3, <2>1, <2>2, OneWriter
  <2>4. \A u \in Pulls : in'[u].pc # "copy"
    BY <1>1, <2>2, <2>3, Others DEF Same
  <2>5. in'[holder] = in[holder] /\ sent'[holder] = sent[holder]
    <3>1. CASE holder # t
      BY <1>1, <2>1, <3>1, Others DEF Same
    <3>2. CASE holder = t
      <4>1. ~Reading(t) /\ in[t].pc # "idle"
        BY <2>2, <3>2 DEF Reading
      <4>2. CASE SendChunk(t)
        BY <4>1, <4>2 DEF SendChunk
      <4>3. CASE ~SendChunk(t)
        BY <4>1, <4>3 DEF TransferStep, OutStep, InStep, SendHeader, Finish, ReadHeader,
           CopyChunk, CopyFails, Offer, Dial, DialFails, BreakOut, BreakIn, Reading
      <4> QED BY <3>2, <4>2, <4>3
    <3> QED BY <3>1, <3>2
  <2> QED BY <2>2, <2>3, <2>4, <2>5
<1> QED BY <1>2, <1>3

----------------------------------------------------------------------------
(***************************************************************************)
(* The invariant, and what follows from it.                                *)
(***************************************************************************)
LEMMA PullInvInit == ASSUME FileInit, FileAssumption PROVE PullInv
<1>1. FileType
  BY FileTypeInit
<1>2. ASSUME NEW t \in Pulls PROVE SoundPull(t) /\ OnlyOne(t)
  BY DEF FileInit, SoundPull, OnlyOne, Unserved
<1> QED BY <1>1, <1>2 DEF PullInv, Held, FileInit

LEMMA PullInvStep == ASSUME FileAssumption, PullInv, [FileNext]_fileVars PROVE PullInv'
<1>1. FileType'
  BY FileTypeStep DEF PullInv
<1>2. ASSUME NEW t \in Pulls, TransferStep(t) PROVE PullInv'
  <2>1. ASSUME NEW u \in Pulls \ spoiled' PROVE (SoundPull(u) /\ OnlyOne(u))'
    <3>1. CASE u = t
      <4>1. u \notin spoiled
        BY <1>2, <3>1 DEF TransferStep, OutStep, InStep, SendHeader, SendChunk, Finish,
           ReadHeader, CopyChunk, CopyFails, Offer, Dial, DialFails, BreakOut, BreakIn, Spoil
      <4>2. SoundPull(t)'
        BY <1>2, <3>1, <4>1, OwnSound DEF PullInv
      <4> QED BY <1>2, <3>1, <4>2, OwnAlone
    <3>2. CASE u # t
      BY <1>2, <3>2, OthersSound
    <3> QED BY <3>1, <3>2
  <2> QED BY <1>1, <1>2, <2>1, HeldStep DEF PullInv
<1>3. CASE \/ UNCHANGED <<file, out, header, pipe, in, dest, holder, sent, spoiled>>
           \/ \E size \in Sizes : Rewrite(size)
  <2>1. /\ UNCHANGED <<out, header, pipe, in, dest, holder, sent>>
        /\ spoiled \subseteq spoiled'
        /\ \A u \in Pulls \ spoiled' : file' = file \/ out[u].pc # "send"
    BY <1>3 DEF Rewrite, Spoil, Serving
  <2>2. ASSUME NEW u \in Pulls \ spoiled' PROVE (SoundPull(u) /\ OnlyOne(u))'
    <3>1. SoundPull(u) /\ OnlyOne(u)
      BY <2>1 DEF PullInv
    <3>2. Same(u)
      BY <2>1 DEF Same
    <3>3. SoundPull(u)'
      BY <2>1, <3>1, <3>2, SoundFrame
    <3> QED BY <2>1, <3>1, <3>3 DEF OnlyOne
  <2>3. Held'
    BY <2>1 DEF PullInv, Held
  <2> QED BY <1>1, <2>2, <2>3 DEF PullInv
<1>4. CASE \/ \E k \in 1..Managers : ServerStep(k)
           \/ StopManager \/ StartManager \/ FileTerminated \/ UNCHANGED fileVars
  BY <1>3, <1>4 DEF ServerStep, Listen, CloseListener, StopManager, StartManager, FileTerminated
<1> QED BY <1>2, <1>3, <1>4 DEF FileNext, TransferStep

\* A file that was received is the one that was sent, to the byte, for every
\* size of the file, of the cipher block and of the two buffers, unless it
\* was rewritten meanwhile or pulls of the name overlapped.
THEOREM Intact == FileSpec => []ReceivedIntact
<1>1. FileInit => PullInv
  BY PullInvInit, FileAssumption
<1>2. PullInv /\ [FileNext]_fileVars => PullInv'
  BY PullInvStep, FileAssumption
<1>3. PullInv => ReceivedIntact
  BY DEF PullInv, Held, ReceivedIntact
<1> QED BY <1>1, <1>2, <1>3, PTL DEF FileSpec

\* No pull fails but for a reason of its own: no write is refused for its
\* length, and no read finds the stream at its end before the file's, for
\* every size of the file, of the cipher block and of the two buffers.
THEOREM NoneFails == FileSpec => []NoNeedlessFailure
<1>1. FileInit => PullInv
  BY PullInvInit, FileAssumption
<1>2. PullInv /\ [FileNext]_fileVars => PullInv'
  BY PullInvStep, FileAssumption
<1>3. PullInv => NoNeedlessFailure
  BY DEF PullInv, SoundPull, NoNeedlessFailure
<1> QED BY <1>1, <1>2, <1>3, PTL DEF FileSpec

----------------------------------------------------------------------------
(***************************************************************************)
(* No pull hangs, whatever spoiled it.  ENABLED is out of the provers'     *)
(* reach, so the theorem names the guard of every step that takes a pull   *)
(* further.                                                                *)
(***************************************************************************)
CanOffer(t)  == in[t].got >= header[t]
CanRead(t)   == in[t].got < header[t] /\ Len(pipe[t]) >= Take(Wanted(t))
CanWrite(t)  == out[t].pc = "send" /\ out[t].left > 0 /\ Len(pipe[t]) < RecvBuf
CanFinish(t) == out[t].pc = "send" /\ out[t].left = 0
SeesEnd(t)   == out[t].pc = "closed" /\ Len(pipe[t]) < Take(Wanted(t))

NoWait ==
  \A t \in Pulls : in[t].pc = "copy" =>
    CanOffer(t) \/ CanRead(t) \/ CanWrite(t) \/ CanFinish(t) \/ SeesEnd(t)

\* A header is seen only after the server began to send, and a pull copies
\* only after it saw one.
HeaderFirst(t) ==
  /\ pipe[t] \in Seq(Nat) /\ out[t].left >= 0
  /\ in[t].pc = "idle" => header[t] = NoSize
  /\ header[t] # NoSize => out[t].pc \in {"send", "closed"}
  /\ in[t].pc = "copy" => header[t] # NoSize

WaitInv == FileType /\ \A t \in Pulls : HeaderFirst(t)

\* A write of any length leaves a sequence of bytes.
LEMMA WriteFirst ==
  ASSUME FileAssumption, FileType, NEW t \in Pulls, HeaderFirst(t), SendChunk(t)
  PROVE  HeaderFirst(t)'
<1> DEFINE n == Available(t, IF out[t].left < SendBuf THEN out[t].left ELSE SendBuf)
           w == IF n = out[t].left THEN RoundUp(n) ELSE n
<1>1. /\ out[t].pc = "send" /\ out[t].left > 0
      /\ UNCHANGED <<file, header, in>>
      /\ (EndOut(t) /\ UNCHANGED pipe) \/ WriteChunk(t, n, w)
  BY WriteEffect, Zenon
<1>2. /\ out[t].left \in Nat /\ file.size \in Nat /\ sent[t].size \in Nat
      /\ file.ver \in Nat
  BY DEF FileType, FileStates, OutStates, HeaderFirst
<1>3. n \in Nat /\ n <= out[t].left
  BY <1>1, <1>2 DEF Available, FileAssumption
<1> HIDE DEF n
<1>4. w \in Nat /\ n <= w
  BY <1>3, RoundUpOK
<1> HIDE DEF w
<1>5. CASE EndOut(t) /\ UNCHANGED pipe
  BY <1>1, <1>5 DEF EndOut, FileType, HeaderFirst
<1>6. CASE WriteChunk(t, n, w)
  <2>1. out'[t].pc = "send" /\ out'[t].left = out[t].left - n
    BY <1>6 DEF WriteChunk, FileType
  <2>2. pipe'[t] = Extended(pipe[t], file.ver, n, w)
    BY <1>6 DEF WriteChunk, FileType, Extended
  <2>3. pipe'[t] \in Seq(Nat)
    <3>1. pipe[t] \in Seq(Nat)
      BY DEF HeaderFirst
    <3>2. Longer(pipe'[t], pipe[t], file.ver, n, w)
      BY <1>2, <1>3, <1>4, <2>2, <3>1, Appended
    <3> QED BY <3>2 DEF Longer
  <2> QED BY <1>1, <1>2, <1>3, <2>1, <2>3 DEF HeaderFirst
<1> QED BY <1>1, <1>5, <1>6

\* What the next read takes is at most a buffer.
LEMMA TakeFits ==
  ASSUME FileAssumption, FileType, NEW t \in Pulls, in[t].got < header[t]
  PROVE  Take(Wanted(t)) \in Nat /\ Take(Wanted(t)) <= RecvBuf
<1>1. RecvBuf \in Nat /\ RecvBuf > 0 /\ Block \in Nat /\ Block > 0
      /\ in[t].got \in Int /\ header[t] \in Int
  BY DEF FileAssumption, FileType, InStates
<1>2. Wanted(t) \in Nat \ {0} /\ Wanted(t) <= RecvBuf
  BY <1>1 DEF Wanted
<1>3. Block <= RecvBuf
  <2>1. WholeBlocks(RecvBuf) /\ WholeBlocks(0)
    BY <1>1, WholeMod DEF FileAssumption
  <2> QED BY <1>1, <2>1, WholeGap
<1> DEFINE p == Wanted(t)
<1> HIDE DEF p
<1>4. p \in Nat \ {0} /\ p <= RecvBuf
  BY <1>2 DEF p
<1>5. Take(p) \in Nat /\ Take(p) <= RecvBuf
  BY <1>1, <1>3, <1>4, TakeOK
<1> QED BY <1>5 DEF p

LEMMA ReadFirst ==
  ASSUME FileAssumption, FileType, NEW t \in Pulls, HeaderFirst(t), CopyChunk(t)
  PROVE  HeaderFirst(t)'
<1> DEFINE p == Wanted(t)
           n == Take(p)
           m == IF n < p THEN n ELSE p
<1>1. /\ in[t].pc = "copy" /\ in[t].got < header[t] /\ Len(pipe[t]) >= n
      /\ pipe' = [pipe EXCEPT ![t] = SubSeq(@, n + 1, Len(@))]
      /\ in' = [in EXCEPT ![t] = [pc |-> "copy", got |-> @.got + m]]
      /\ UNCHANGED <<out, header>>
  BY ReadEffect, Zenon
<1>2. n \in Nat
  BY <1>1, TakeFits
<1> HIDE DEF n, m
<1>3. pipe[t] \in Seq(Nat) /\ n <= Len(pipe[t])
  BY <1>1, <1>2 DEF HeaderFirst
<1>4. pipe'[t] = SubSeq(pipe[t], n + 1, Len(pipe[t])) /\ in'[t].pc = "copy"
  BY <1>1 DEF FileType
<1>5. pipe'[t] \in Seq(Nat)
  BY <1>2, <1>3, <1>4, Cut
<1> QED BY <1>1, <1>4, <1>5 DEF HeaderFirst

LEMMA WaitInvStep == ASSUME FileAssumption, WaitInv, [FileNext]_fileVars PROVE WaitInv'
<1>1. FileType /\ FileType' /\ \A t \in Pulls : HeaderFirst(t)
  BY FileTypeStep DEF WaitInv
<1>2. ASSUME NEW t \in Pulls, TransferStep(t), NEW u \in Pulls PROVE HeaderFirst(u)'
  <2>1. CASE u # t
    BY <1>1, <1>2, <2>1, Others DEF Same, HeaderFirst
  <2>2. CASE u = t
    <3> SUFFICES HeaderFirst(t)'
      BY <2>2
    <3>1. CASE SendChunk(t)
      BY <1>1, <3>1, WriteFirst
    <3>2. CASE CopyChunk(t)
      BY <1>1, <3>2, ReadFirst
    <3>3. CASE Finish(t) \/ BreakOut(t)
      BY <1>1, <3>3 DEF Finish, BreakOut, EndOut, FileType, HeaderFirst
    <3>4. CASE SendHeader(t)
      <4>1. CASE EndOut(t) /\ UNCHANGED header
        BY <1>1, <3>4, <4>1 DEF SendHeader, EndOut, FileType, HeaderFirst
      <4>2. CASE ~(EndOut(t) /\ UNCHANGED header)
        <5>1. /\ in[t].pc \in {"header", "copy"} /\ UNCHANGED <<in, pipe>>
              /\ out' = [out EXCEPT ![t] = [pc |-> "send", left |-> file.size]]
              /\ header' = [header EXCEPT ![t] = file.size]
          BY <3>4, <4>2 DEF SendHeader, Reading
        <5>2. out'[t].pc = "send" /\ out'[t].left = file.size /\ header'[t] = file.size
          BY <1>1, <5>1 DEF FileType
        <5>3. file.size >= 0 /\ file.size # NoSize
          BY <1>1 DEF FileType, FileStates, NoSize
        <5> QED BY <1>1, <5>1, <5>2, <5>3 DEF HeaderFirst
      <4> QED BY <4>1, <4>2
    <3>5. ASSUME NEW how \in {"ok", "failed"}, EndIn(t, how), UNCHANGED out
          PROVE  HeaderFirst(t)'
      <4>1. in'[t].pc = how /\ header'[t] = NoSize /\ pipe'[t] = <<>>
        BY <1>1, <3>5 DEF EndIn, FileType
      <4>2. <<>> \in Seq(Nat)
        OBVIOUS
      <4> QED BY <1>1, <3>5, <4>1, <4>2 DEF HeaderFirst
    <3>6. CASE CopyFails(t) \/ Offer(t) \/ DialFails(t) \/ BreakIn(t)
      BY <3>5, <3>6 DEF CopyFails, Offer, DialFails, BreakIn
    <3>7. CASE ReadHeader(t)
      <4>1. CASE EndIn(t, "failed")
        BY <3>5, <3>7, <4>1 DEF ReadHeader
      <4>2. CASE ~EndIn(t, "failed")
        <5>1. header[t] \in 1..MaxFile /\ UNCHANGED <<header, pipe, out>>
          BY <3>7, <4>2 DEF ReadHeader
        <5>2. header[t] # NoSize
          BY <5>1 DEF NoSize, FileAssumption
        <5>3. in'[t].pc = "copy"
          BY <1>1, <3>7, <4>2 DEF ReadHeader, FileType
        <5> QED BY <1>1, <5>1, <5>2, <5>3 DEF HeaderFirst
      <4> QED BY <4>1, <4>2
    <3>8. CASE Dial(t)
      BY <1>1, <3>8 DEF Dial, FileType, HeaderFirst
    <3> QED BY <1>2, <3>1, <3>2, <3>3, <3>4, <3>6, <3>7, <3>8
            DEF TransferStep, OutStep, InStep
  <2> QED BY <2>1, <2>2
<1>3. CASE UNCHANGED <<out, header, pipe, in>>
  BY <1>1, <1>3 DEF WaitInv, HeaderFirst
<1>4. CASE \/ \E k \in 1..Managers : ServerStep(k)
           \/ \E size \in Sizes : Rewrite(size)
           \/ StopManager \/ StartManager \/ FileTerminated \/ UNCHANGED fileVars
  BY <1>3, <1>4 DEF ServerStep, Listen, CloseListener, Rewrite, StopManager, StartManager,
     FileTerminated
<1> QED BY <1>1, <1>2, <1>4 DEF FileNext, TransferStep, WaitInv

LEMMA WaitAlways == FileSpec => []WaitInv
<1>1. ASSUME FileInit PROVE WaitInv
  <2>1. FileType /\ <<>> \in Seq(Nat)
    BY <1>1, FileTypeInit, FileAssumption
  <2> QED BY <1>1, <2>1 DEF FileInit, WaitInv, HeaderFirst
<1>2. WaitInv /\ [FileNext]_fileVars => WaitInv'
  BY WaitInvStep, FileAssumption
<1> QED BY <1>1, <1>2, PTL DEF FileSpec

\* Neither end of a transfer waits for the other one to give or to take what
\* it cannot: while a pull copies, one end can go on, whatever spoiled it and
\* for every size of the file, of the cipher block and of the two buffers.
\* This is the safety form of PullEnds.
THEOREM NoneWaits == FileSpec => []NoWait
<1>1. ASSUME WaitInv, NEW t \in Pulls, in[t].pc = "copy"
      PROVE  CanOffer(t) \/ CanRead(t) \/ CanWrite(t) \/ CanFinish(t) \/ SeesEnd(t)
  <2>1. /\ out[t].pc \in {"send", "closed"} /\ Len(pipe[t]) \in Nat
        /\ out[t].left \in Nat /\ in[t].got \in Int /\ header[t] \in Int
    BY <1>1 DEF WaitInv, HeaderFirst, FileType, OutStates, InStates
  <2>2. CASE in[t].got < header[t]
    <3>1. Take(Wanted(t)) \in Nat /\ Take(Wanted(t)) <= RecvBuf /\ RecvBuf \in Nat
      BY <1>1, <2>2, TakeFits, FileAssumption DEF WaitInv, FileAssumption
    <3> QED BY <2>1, <2>2, <3>1 DEF CanRead, CanWrite, CanFinish, SeesEnd
  <2> QED BY <2>1, <2>2 DEF CanOffer
<1>2. WaitInv => NoWait
  BY <1>1 DEF NoWait
<1> QED BY <1>2, WaitAlways, PTL

\* With each of its steps a pull gets nearer to its end: what it has grows,
\* what is left to send shrinks, the size it compares with stays.
PullAdvances ==
  \A t \in Pulls : in[t].pc = "copy" /\ in'[t].pc = "copy" =>
    /\ header'[t] = header[t]
    /\ \/ in'[t] = in[t] /\ out'[t] = out[t]
       \/ in'[t].got > in[t].got /\ out'[t] = out[t]
       \/ /\ in'[t] = in[t] /\ out[t].pc = "send"
          /\ out'[t].pc = "closed" \/ out'[t].left < out[t].left

LEMMA WriteAdvances ==
  ASSUME FileAssumption, FileType, NEW t \in Pulls, SendChunk(t)
  PROVE  out'[t].pc = "closed" \/ out'[t].left < out[t].left
<1> DEFINE n == Available(t, IF out[t].left < SendBuf THEN out[t].left ELSE SendBuf)
           w == IF n = out[t].left THEN RoundUp(n) ELSE n
<1>1. out[t].left \in Int /\ file.size \in Nat /\ sent[t].size \in Nat /\ SendBuf \in Nat
  BY DEF FileType, FileStates, OutStates, FileAssumption
<1>2. n \in Nat
  BY <1>1, WriteEffect DEF Available
<1>3. CASE EndOut(t)
  BY <1>3 DEF EndOut, FileType
<1>4. CASE ~EndOut(t)
  <2>1. n # 0 /\ out' = [out EXCEPT ![t] = [pc |-> "send", left |-> @.left - n]]
    BY <1>4 DEF SendChunk
  <2> HIDE DEF n
  <2>2. out'[t].left = out[t].left - n
    BY <2>1 DEF FileType
  <2> QED BY <1>1, <1>2, <2>1, <2>2
<1> QED BY <1>3, <1>4

LEMMA ReadAdvances ==
  ASSUME FileAssumption, FileType, NEW t \in Pulls, CopyChunk(t)
  PROVE  in'[t].got > in[t].got
<1> DEFINE p == Wanted(t)
           n == Take(p)
           m == IF n < p THEN n ELSE p
<1>1. in[t].got < header[t] /\ in' = [in EXCEPT ![t] = [pc |-> "copy", got |-> @.got + m]]
  BY ReadEffect, Zenon
<1>2. in[t].got \in Int /\ header[t] \in Int /\ RecvBuf \in Nat \ {0}
      /\ Block \in Nat \ {0}
  BY DEF FileType, InStates, FileAssumption
<1>3. p \in Nat \ {0}
  BY <1>1, <1>2 DEF Wanted
<1> HIDE DEF p
<1>4. n \in Nat \ {0}
  BY <1>2, <1>3, TakeOK
<1> HIDE DEF n
<1>5. m \in Nat \ {0}
  BY <1>3, <1>4
<1> HIDE DEF m
<1>6. in'[t].got = in[t].got + m
  BY <1>1 DEF FileType
<1> QED BY <1>2, <1>5, <1>6

\* Whatever spoils a pull, each of its steps is one of finitely many: with
\* NoneWaits the safety half of PullEnds.
THEOREM PullsAdvance == FileSpec => [][PullAdvances]_fileVars
<1>1. ASSUME FileAssumption, WaitInv, [FileNext]_fileVars, NEW t \in Pulls,
             in[t].pc = "copy", in'[t].pc = "copy"
      PROVE  /\ header'[t] = header[t]
             /\ \/ in'[t] = in[t] /\ out'[t] = out[t]
                \/ in'[t].got > in[t].got /\ out'[t] = out[t]
                \/ /\ in'[t] = in[t] /\ out[t].pc = "send"
                   /\ out'[t].pc = "closed" \/ out'[t].left < out[t].left
  <2>0. FileType /\ out[t].pc \in {"send", "closed"}
    BY <1>1 DEF WaitInv, HeaderFirst
  <2>1. ASSUME NEW u \in Pulls, TransferStep(u), u # t
        PROVE  header'[t] = header[t] /\ in'[t] = in[t] /\ out'[t] = out[t]
    BY <2>0, <2>1, Others DEF Same
  <2>2. CASE SendChunk(t)
    <3>1. out[t].pc = "send" /\ UNCHANGED <<header, in>>
      BY <2>2 DEF SendChunk
    <3> QED BY <1>1, <2>0, <2>2, <3>1, WriteAdvances
  <2>3. CASE CopyChunk(t)
    <3>1. UNCHANGED <<header, out>>
      BY <2>3 DEF CopyChunk
    <3> QED BY <1>1, <2>0, <2>3, <3>1, ReadAdvances
  <2>4. CASE Finish(t) \/ BreakOut(t)
    <3>1. EndOut(t) /\ UNCHANGED <<header, in>> /\ out[t].pc # "closed"
      BY <2>4 DEF Finish, BreakOut
    <3>2. out'[t].pc = "closed"
      BY <2>0, <3>1 DEF EndOut, FileType
    <3> QED BY <2>0, <3>1, <3>2
  <2>5. ~(SendHeader(t) \/ Dial(t) \/ ReadHeader(t))
    BY <1>1, <2>0 DEF SendHeader, Dial, ReadHeader
  <2>6. ~(CopyFails(t) \/ Offer(t) \/ DialFails(t) \/ BreakIn(t))
    <3>1. ASSUME NEW how \in {"ok", "failed"}, EndIn(t, how) PROVE FALSE
      BY <1>1, <2>0, <3>1 DEF EndIn, FileType
    <3> QED BY <3>1 DEF CopyFails, Offer, DialFails, BreakIn
  <2>7. CASE \/ \E k \in 1..Managers : ServerStep(k)
             \/ \E size \in Sizes : Rewrite(size)
             \/ StopManager \/ StartManager \/ FileTerminated \/ UNCHANGED fileVars
    <3>1. UNCHANGED <<header, in, out>>
      BY <2>7 DEF ServerStep, Listen, CloseListener, Rewrite, StopManager, StartManager,
         FileTerminated
    <3> QED BY <3>1
  <2> QED BY <1>1, <2>1, <2>2, <2>3, <2>4, <2>5, <2>6, <2>7
          DEF FileNext, TransferStep, OutStep, InStep
<1>2. WaitInv /\ [FileNext]_fileVars => PullAdvances
  BY <1>1, FileAssumption DEF PullAdvances
<1> QED BY <1>2, WaitAlways, PTL DEF FileSpec
=============================================================================
