-------------------------- MODULE MCClipboardSync --------------------------
(* Contents for TLC.  A text whose stream just fits, a text and an image   *)
(* whose streams do not; the text and the image that the local user copies *)
(* look, by their hashes, like what the remote's streams bring.            *)
EXTENDS ClipboardSync

MCHash   == [c \in Contents |-> CASE c \in {"i1", Junk} -> "img"
                                  [] c \in {"t1", "t3"} -> "txt"
                                  [] OTHER -> c]
MCChunks == [c \in Contents |-> IF c \in {"t2", "i2"} THEN MaxRecvBuf + 2
                                ELSE MaxRecvBuf]
============================================================================
