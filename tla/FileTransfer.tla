---------------------------- MODULE FileTransfer ----------------------------
(***************************************************************************)
(* Files over the clipboard channel                                        *)
(* (internal/clipboard/filetransfer_linux.go).  A machine that copied a    *)
(* file serves it on the base port; the other one pulls it, one connection *)
(* a pull, and offers what it received on its own clipboard.  Both ends    *)
(* run this program.  What matters here:                                   *)
(*   - the stream is made of cipher blocks: writes must be whole blocks,   *)
(*     reads return less than they take from the stream (stream.go);       *)
(*   - the sender reads the file's size once, and its bytes afterwards,    *)
(*     while the user may rewrite the file;                                *)
(*   - nothing orders the pulls: each beat starts one, and all write the   *)
(*     same name;                                                          *)
(*   - the server of one connection may still hold the port when the next  *)
(*     connection's manager wants it.                                      *)
(*                                                                         *)
(* A byte is the version of the file it comes from; 0 is padding, or a     *)
(* hole.                                                                   *)
(***************************************************************************)
EXTENDS Integers, Sequences

CONSTANTS
  Pulls,      \* bound: pulls of a behaviour
  Block,      \* bytes of a cipher block (16)
  SendBuf,    \* bytes the sender reads at a time (64 KB)
  RecvBuf,    \* bytes io.CopyN reads at a time (32 KB)
  Sizes,      \* sizes the file may be given
  FirstSize,  \* the size it has at first
  MaxFile,    \* maxFileSize
  Versions,   \* bound: the file is rewritten until the last version
  Managers    \* bound: managers (connections) of the serving machine, 1..n

ASSUME FileAssumption ==
  /\ Block \in Nat \ {0} /\ Sizes \subseteq Nat /\ FirstSize \in Sizes
  /\ SendBuf \in Nat \ {0} /\ RecvBuf \in Nat \ {0} /\ MaxFile \in Nat
  /\ SendBuf % Block = 0 /\ RecvBuf % Block = 0 /\ SendBuf % RecvBuf = 0
  /\ Versions \in Nat \ {0} /\ Managers \in Nat \ {0}

VARIABLES
  \* the serving machine
  file,      \* [ver, size] on its disk
  current,   \* the manager that runs, or ran last
  running,
  server,    \* each manager's serveFiles
  \* each transfer
  out,       \* the serving end: [pc, left]
  header,    \* the size in the header, or none yet
  pipe,      \* bytes on their way
  \* the pulling machine
  in,        \* the pulling end: [pc, got]
  dest,      \* bytes of the file on its disk
  \* history
  holder,    \* the pull that finished dest, until the next one empties it
  sent,      \* the file each transfer read the size of
  spoiled    \* transfers that may go wrong, for a reason of their own

serverVars == <<current, running, server>>
fileVars == <<file, serverVars, out, header, pipe, in, dest, holder, sent, spoiled>>

NoSize == -1
NoFile == [ver |-> 0, size |-> 0]
NoHolder == "none"

FileInit ==
  /\ file = [ver |-> 1, size |-> FirstSize]
  /\ current = 1 /\ running = TRUE
  /\ server = [k \in 1..Managers |-> IF k = 1 THEN "start" ELSE "none"]
  /\ out = [t \in Pulls |-> [pc |-> "none", left |-> 0]]
  /\ header = [t \in Pulls |-> NoSize]
  /\ pipe = [t \in Pulls |-> <<>>]
  /\ in = [t \in Pulls |-> [pc |-> "idle", got |-> 0]]
  /\ dest = <<>> /\ holder = NoHolder
  /\ sent = [t \in Pulls |-> NoFile]
  /\ spoiled = {}

Spoil(ts) == spoiled' = spoiled \cup ts

----------------------------------------------------------------------------
(* The file server, one for each manager.                                  *)

\* net.Listen fails while another server has the port, and is not repeated.
Listen(k) ==
  /\ server[k] = "start"
  /\ server' = [server EXCEPT ![k] =
                  IF \E j \in 1..Managers : server[j] = "listening"
                    THEN "failed" ELSE "listening"]
  /\ UNCHANGED <<file, current, running, out, header, pipe, in, dest,
                 holder, sent, spoiled>>

\* Stop closes stopCh and waits for the poller only.
StopManager ==
  /\ running /\ running' = FALSE
  /\ UNCHANGED <<file, current, server, out, header, pipe, in, dest,
                 holder, sent, spoiled>>

\* The next connection's manager.
StartManager ==
  /\ ~running /\ current < Managers
  /\ current' = current + 1 /\ running' = TRUE
  /\ server' = [server EXCEPT ![current + 1] = "start"]
  /\ UNCHANGED <<file, out, header, pipe, in, dest, holder, sent, spoiled>>

Stopped(k) == k < current \/ (k = current /\ ~running)

\* The goroutine that waits for stopCh closes the listener.
CloseNever(k) ==                                               \* mutant
  /\ server[k] = "listening" /\ Stopped(k) /\ current = k /\ running
  /\ UNCHANGED fileVars

CloseListener(k) ==
  /\ server[k] = "listening" /\ Stopped(k)
  /\ server' = [server EXCEPT ![k] = "closed"]
  /\ UNCHANGED <<file, current, running, out, header, pipe, in, dest,
                 holder, sent, spoiled>>

----------------------------------------------------------------------------
(* The serving end: serveFileConn, sendFileStream.                         *)

\* The other end still has the connection.
Reading(t) == in[t].pc \in {"header", "copy"}

Serving == {t \in Pulls : out[t].pc = "send"}

EndOutOpen(t) == out' = [out EXCEPT ![t].pc = "over"]           \* mutant
EndOut(t) == out' = [out EXCEPT ![t] = [pc |-> "closed", left |-> 0]]

\* The user rewrites the file in place.
Rewrite(size) ==
  /\ file.ver < Versions /\ size # file.size
  /\ file' = [ver |-> file.ver + 1, size |-> size]
  /\ Spoil(Serving)
  /\ UNCHANGED <<serverVars, out, header, pipe, in, dest, holder, sent>>

\* The header with the file's size.  The connection closes if the manager
\* knows no file, or it is gone.
SendHeader(t) ==
  /\ out[t].pc = "serve"
  /\ \/ /\ Reading(t)
        /\ out' = [out EXCEPT ![t] = [pc |-> "send", left |-> file.size]]
        /\ header' = [header EXCEPT ![t] = file.size]
        /\ sent' = [sent EXCEPT ![t] = file]
        /\ UNCHANGED spoiled
     \/ EndOut(t) /\ Spoil({t}) /\ UNCHANGED <<header, sent>>
  /\ UNCHANGED <<file, serverVars, pipe, in, dest, holder>>

Bytes(ver, n) == [i \in 1..n |-> ver]
RoundUp(n) == ((n + Block - 1) \div Block) * Block

\* How many of the next n bytes the file still has.
Available(t, n) ==
  LET rest == file.size - (sent[t].size - out[t].left)
  IN  IF rest < 0 THEN 0 ELSE IF rest < n THEN rest ELSE n

\* One read and one write.  Only the last write is padded, so a read that
\* is cut short by a file that shrank may give a length that is refused.
SendChunkUnpadded(t) ==                                        \* mutant
  /\ out[t].pc = "send" /\ out[t].left > 0 /\ Reading(t)
  /\ Len(pipe[t]) < RecvBuf
  /\ LET n == Available(t, IF out[t].left < SendBuf THEN out[t].left ELSE SendBuf)
     IN  IF n = 0 \/ n % Block # 0
           THEN EndOut(t) /\ UNCHANGED pipe
           ELSE /\ pipe' = [pipe EXCEPT ![t] = @ \o Bytes(file.ver, n)]
                /\ out' = [out EXCEPT ![t] = [pc |-> "send", left |-> @.left - n]]
  /\ UNCHANGED <<file, serverVars, header, in, dest, holder, sent, spoiled>>

SendChunk(t) ==
  /\ out[t].pc = "send" /\ out[t].left > 0 /\ Reading(t)
  /\ Len(pipe[t]) < RecvBuf
  /\ LET n == Available(t, IF out[t].left < SendBuf THEN out[t].left ELSE SendBuf)
         w == IF n = out[t].left THEN RoundUp(n) ELSE n
     IN  IF n = 0 \/ w % Block # 0
           THEN EndOut(t) /\ UNCHANGED pipe
           ELSE /\ pipe' = [pipe EXCEPT ![t] =
                              @ \o Bytes(file.ver, n) \o Bytes(0, w - n)]
                /\ out' = [out EXCEPT ![t] = [pc |-> "send", left |-> @.left - n]]
  /\ UNCHANGED <<file, serverVars, header, in, dest, holder, sent, spoiled>>

\* All is sent, or the other end is gone: the connection is closed.
Finish(t) ==
  /\ out[t].pc = "send" /\ (out[t].left = 0 \/ ~Reading(t))
  /\ EndOut(t)
  /\ UNCHANGED <<file, serverVars, header, pipe, in, dest, holder, sent, spoiled>>

----------------------------------------------------------------------------
(* The pulling end: pullRemoteFile, pullFile.                              *)

\* The pulling end closes; what was under way is gone.
EndIn(t, how) ==
  /\ in' = [in EXCEPT ![t] = [pc |-> how, got |-> 0]]
  /\ header' = [header EXCEPT ![t] = NoSize]
  /\ pipe' = [pipe EXCEPT ![t] = <<>>]
  /\ sent' = [sent EXCEPT ![t] = IF how = "ok" THEN @ ELSE NoFile]

\* A beat came: dial and shake hands, if a server listens.
Dial(t) ==
  /\ in[t].pc = "idle"
  /\ \E k \in 1..Managers :
       /\ server[k] = "listening"
       /\ in' = [in EXCEPT ![t] = [pc |-> "header", got |-> 0]]
       /\ out' = [out EXCEPT ![t] = [pc |-> "serve", left |-> 0]]
  /\ UNCHANGED <<file, serverVars, header, pipe, dest, holder, sent, spoiled>>

DialFails(t) ==
  /\ in[t].pc = "idle"
  /\ \A k \in 1..Managers : server[k] # "listening"
  /\ EndIn(t, "failed") /\ Spoil({t})
  /\ UNCHANGED <<file, serverVars, out, dest, holder>>

Copying == {t \in Pulls : in[t].pc = "copy"}

\* The header, its checks, and os.Create, which empties the file of an
\* earlier pull, and of one that is still writing it.
ReadHeader(t) ==
  /\ in[t].pc = "header"
  /\ \/ /\ header[t] \in 1..MaxFile
        /\ in' = [in EXCEPT ![t] = [pc |-> "copy", got |-> 0]]
        /\ dest' = <<>> /\ holder' = NoHolder
        /\ Spoil(IF Copying = {} THEN {} ELSE Copying \cup {t})
        /\ UNCHANGED <<header, pipe, sent>>
     \/ /\ header[t] # NoSize /\ header[t] \notin 1..MaxFile
        /\ EndIn(t, "failed") /\ Spoil({t})
        /\ UNCHANGED <<dest, holder>>
     \/ /\ header[t] = NoSize /\ out[t].pc = "closed"
        /\ EndIn(t, "failed")
        /\ UNCHANGED <<dest, holder, spoiled>>
  /\ UNCHANGED <<file, serverVars, out>>

\* What one Read asks of the stream for a buffer of p bytes: whole blocks,
\* at least one.
Take(p) == IF p < Block THEN Block ELSE (p \div Block) * Block

\* What is wanted of the stream next: io.CopyN stops at the size.
WantedToEnd(t) == RecvBuf                                      \* mutant
Wanted(t) ==
  LET rest == header[t] - in[t].got
  IN  IF rest < RecvBuf THEN rest ELSE RecvBuf

\* Write bs at offset; a file that was emptied meanwhile gets a hole.
WriteAt(f, offset, bs) ==
  [i \in 1..(IF offset + Len(bs) > Len(f) THEN offset + Len(bs) ELSE Len(f)) |->
     IF i \in offset + 1..offset + Len(bs) THEN bs[i - offset]
     ELSE IF i <= Len(f) THEN f[i] ELSE 0]

CopyChunk(t) ==
  /\ in[t].pc = "copy" /\ in[t].got < header[t]
  /\ LET p == Wanted(t)
         n == Take(p)
         m == IF n < p THEN n ELSE p
     IN  /\ Len(pipe[t]) >= n
         /\ dest' = WriteAt(dest, in[t].got, SubSeq(pipe[t], 1, m))
         /\ pipe' = [pipe EXCEPT ![t] = SubSeq(@, n + 1, Len(@))]
         /\ in' = [in EXCEPT ![t] = [pc |-> "copy", got |-> @.got + m]]
  /\ UNCHANGED <<file, serverVars, out, header, holder, sent, spoiled>>

\* The stream ends in the middle; what was written stays.
CopyFails(t) ==
  /\ in[t].pc = "copy" /\ in[t].got < header[t]
  /\ out[t].pc = "closed" /\ Len(pipe[t]) < Take(Wanted(t))
  /\ EndIn(t, "failed")
  /\ UNCHANGED <<file, serverVars, out, dest, holder, spoiled>>

\* All bytes are there: the file becomes localFile and goes on the
\* clipboard.
Offer(t) ==
  /\ in[t].pc = "copy" /\ in[t].got >= header[t]
  /\ EndIn(t, "ok")
  /\ holder' = t
  /\ UNCHANGED <<file, serverVars, out, dest, spoiled>>

\* The deadline of one end expires, or its disk fails.
BreakOut(t) ==
  /\ out[t].pc \in {"serve", "send"}
  /\ EndOut(t) /\ Spoil({t})
  /\ UNCHANGED <<file, serverVars, header, pipe, in, dest, holder, sent>>

BreakIn(t) ==
  /\ in[t].pc \in {"header", "copy"}
  /\ EndIn(t, "failed") /\ Spoil({t})
  /\ UNCHANGED <<file, serverVars, out, dest, holder>>

----------------------------------------------------------------------------
ServerStep(k) == Listen(k) \/ CloseListener(k)
OutStep(t) == SendHeader(t) \/ SendChunk(t) \/ Finish(t)
InStep(t) == ReadHeader(t) \/ CopyChunk(t) \/ CopyFails(t) \/ Offer(t)

\* Nothing is left to do.
FileTerminated ==
  /\ ~running /\ current = Managers
  /\ \A k \in 1..Managers : server[k] # "listening"
  /\ \A t \in Pulls : in[t].pc \in {"ok", "failed"} /\ out[t].pc \in {"none", "closed"}
  /\ UNCHANGED fileVars

FileNext ==
  \/ \E k \in 1..Managers : ServerStep(k)
  \/ StopManager \/ StartManager
  \/ \E size \in Sizes : Rewrite(size)
  \/ \E t \in Pulls : \/ OutStep(t) \/ InStep(t) \/ Dial(t) \/ DialFails(t)
                      \/ BreakOut(t) \/ BreakIn(t)
  \/ FileTerminated

FileSpec == FileInit /\ [][FileNext]_fileVars

\* Every goroutine runs; deadlines, users and beats promise nothing.
FileFairSpec ==
  /\ FileSpec
  /\ \A k \in 1..Managers : WF_fileVars(ServerStep(k))
  /\ \A t \in Pulls : WF_fileVars(OutStep(t)) /\ WF_fileVars(InStep(t))

----------------------------------------------------------------------------
(* Properties.                                                             *)

\* A file that was received is the file that was sent, to the byte, however
\* its size divides into blocks and buffers; unless it was rewritten while
\* it was sent, or another pull of the name ran into this one
\* (filetransfer_linux.go:145-153).
ReceivedIntact ==
  holder # NoHolder /\ holder \notin spoiled =>
    dest = Bytes(sent[holder].ver, sent[holder].size)

\* A transfer does not fail of itself: only when there was no server or no
\* file, the size is out of range, the file was rewritten, pulls
\* overlapped, or an end broke off.
NoNeedlessFailure == \A t \in Pulls : in[t].pc = "failed" => t \in spoiled

\* A pull ends without the help of its deadline: neither end waits for
\* bytes the other one has not to give.
PullEnds ==
  \A t \in Pulls : in[t].pc = "copy" ~> in[t].pc \in {"ok", "failed"}

\* The server of a manager that was stopped gives the port back, whenever
\* its goroutine came to listen.
PortGivenBack ==
  \A k \in 1..Managers : Stopped(k) ~> server[k] \in {"closed", "failed"}
============================================================================
