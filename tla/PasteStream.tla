------------------------------ MODULE PasteStream ------------------------------
(***************************************************************************)
(* One paste of the Windows DLL: the pasting program pulls the data out of *)
(* an MSStream (MSPaste/MSStream.cpp) or waits for the whole image in      *)
(* MSImgHandler::GetImg (MSPaste/MSImgHandler.cpp), while the goroutine    *)
(* that receives the data (HandleDataTransferWrite, client/p2p/p2p.go)     *)
(* pushes it in with WriteFile and may end it with Cancel.                 *)
(*                                                                         *)
(* The two sides share mProgressSize, mWaitDataFlag and mCancel without a  *)
(* common lock: mMutexRead and mMutexWrite each order one side only.  So a *)
(* step is one load or store of a shared field, in the order of the source *)
(* (build_windows.ps1 compiles without optimisation).  Bytes are named by  *)
(* their place in the source's data; a byte the pasting program gets       *)
(* although nothing was copied there is Junk.                              *)
(*                                                                         *)
(* mProgressSize and mPosition are DWORDs, and so is every sum and every   *)
(* difference of them.                                                     *)
(***************************************************************************)
EXTENDS Integers, Sequences

CONSTANTS
  Announced, \* sizes the source may have announced
  MaxChunk,  \* the receive buffer of the goroutine (32 KB)
  MaxExtra,  \* how much more the source may send than it announced
  DWordMod,  \* 2^32
  Junk

ASSUME SizesAssumption ==
  /\ Announced \subseteq Nat
  /\ MaxChunk \in Nat
  /\ MaxExtra \in Nat
  /\ DWordMod \in Nat \ {0}

VARIABLES
  kind,     \* "file": an MSStream; "image": an MSImgHandler
  size,     \* the announced size, high and low part
  mapped,   \* m_pBuffer (mLpDib) is there
  buffer,   \* the bytes copied into it, up to the highest one ever written
  progress, \* mProgressSize
  position, \* mPosition
  flag,     \* mWaitDataFlag
  cancel,   \* mCancel
  received, \* receivedBytes, of the goroutine
  chunk,    \* the number of bytes the goroutine hands to WriteFile
  gpc,      \* control state of the goroutine
  rpc,      \* control state of the reader, in Read or in GetImg's loop
  copied,   \* how much the reader's memcpy copied, then what *pcbRead says
  got,      \* what the pasting program has been given by Read
  torn      \* ghost: WriteFile counted a chunk among the loads of one Read

vars == <<kind, size, mapped, buffer, progress, position, flag, cancel, received,
          chunk, gpc, rpc, copied, got, torn>>
paste == <<kind, size, mapped>>
writer == <<buffer, progress, cancel, received, chunk, gpc>>
reader == <<position, rpc, copied, got, torn>>

(* mFileSize: the low part only, and 0 when InitFile failed.               *)
FileSize == IF mapped THEN size % DWordMod ELSE 0

(* No sum of mProgressSize and a chunk comes to 2^32.                       *)
FarFrom4GB == FileSize + MaxChunk < DWordMod

(* The types; besides, the reader does not pass what was counted, unless   *)
(* mProgressSize can wrap.                                                 *)
TypeOK ==
  /\ kind \in {"file", "image"}
  /\ size \in Announced
  /\ mapped \in BOOLEAN
  /\ buffer \in Seq(Nat)
  /\ progress \in 0..(DWordMod - 1)
  /\ position \in 0..(DWordMod - 1)
  /\ FarFrom4GB => position <= progress
  /\ flag \in BOOLEAN
  /\ cancel \in BOOLEAN
  /\ received \in Nat
  /\ chunk \in Nat
  /\ gpc \in {"recv", "write", "count", "flag", "cancel", "ended"}
  /\ rpc \in {"idle", "wait", "clear", "test", "copy", "count", "advance", "done"}
  /\ copied \in 0..(DWordMod - 1)
  /\ got \in Seq(Nat \cup {Junk})
  /\ torn \in BOOLEAN

(* The object has just been created and StartDownload called.  An image    *)
(* whose memory cannot be had is never asked for; a file is.               *)
Init ==
  /\ kind \in {"file", "image"}
  /\ size \in Announced
  /\ mapped \in (IF kind = "file" THEN BOOLEAN ELSE {TRUE})
  /\ buffer = <<>> /\ progress = 0 /\ position = 0
  /\ flag = FALSE /\ cancel = FALSE
  /\ received = 0 /\ chunk = 0
  /\ gpc = "recv" /\ rpc = "idle"
  /\ copied = 0 /\ got = <<>> /\ torn = FALSE

Bytes(from, n) == [i \in 1..n |-> from + i]

-----------------------------------------------------------------------------
(* The goroutine *)

(* The receive loop: the source sends what the file holds now, which may   *)
(* be more than it announced.                                              *)
Receive ==
  /\ gpc = "recv" /\ received < size
  /\ \E n \in 1..MaxChunk :
       /\ received + n <= size + MaxExtra
       /\ chunk' = n
       /\ received' = received + n
  /\ gpc' = "write"
  /\ UNCHANGED <<paste, buffer, progress, flag, cancel, reader>>

(* The loop ends: everything was received, or the connection broke.        *)
ReceiveEnds ==
  /\ gpc = "recv"
  /\ gpc' = "ended"
  /\ UNCHANGED <<paste, buffer, progress, flag, cancel, received, chunk, reader>>

(* Mutant: WriteFile's test leaves out the size of the chunk.              *)
FitsProgressOnly == mapped /\ progress <= FileSize

(* WriteFile's tests; the sum is a DWORD.                                  *)
Fits == mapped /\ (progress + chunk) % DWordMod <= FileSize

WriteRefused ==
  /\ gpc = "write" /\ ~Fits
  /\ gpc' = "recv"
  /\ UNCHANGED <<paste, buffer, progress, flag, cancel, received, chunk, reader>>

(* The memcpy to m_pBuffer + mProgressSize.                                *)
WriteCopies ==
  /\ gpc = "write" /\ Fits
  /\ LET end == progress + chunk
     IN  buffer' = [i \in 1..(IF Len(buffer) < end THEN end ELSE Len(buffer)) |->
                      IF progress < i /\ i <= end THEN received - end + i ELSE buffer[i]]
  /\ gpc' = "count"
  /\ UNCHANGED <<paste, progress, flag, cancel, received, chunk, reader>>

WriteCounts ==
  /\ gpc = "count"
  /\ progress' = (progress + chunk) % DWordMod
  /\ gpc' = "flag"
  /\ UNCHANGED <<paste, buffer, flag, cancel, received, chunk, reader>>

WriteFlags ==
  /\ gpc = "flag"
  /\ flag' = TRUE
  /\ gpc' = "recv"
  /\ UNCHANGED <<paste, buffer, progress, cancel, received, chunk, reader>>

(* Mutant: Cancel does not raise the flag.                                 *)
CancelSilently ==
  /\ gpc = "recv" /\ received < size
  /\ cancel' = TRUE
  /\ gpc' = "ended"
  /\ UNCHANGED <<paste, buffer, progress, flag, received, chunk, reader>>

(* The source could not open the file, or the receive timed out: Cancel.   *)
Cancel ==
  /\ gpc = "recv" /\ received < size
  /\ cancel' = TRUE
  /\ gpc' = "cancel"
  /\ UNCHANGED <<paste, buffer, progress, flag, received, chunk, reader>>

CancelFlags ==
  /\ gpc = "cancel"
  /\ flag' = TRUE
  /\ gpc' = "ended"
  /\ UNCHANGED <<paste, buffer, progress, cancel, received, chunk, reader>>

-----------------------------------------------------------------------------
(* The reader: the pasting program calls Read until it says S_FALSE, and   *)
(* GetImg calls Check until it says false.                                 *)

Step(from, to) == rpc = from /\ rpc' = to

(* Mutant: Read reports the end one byte early.                            *)
BeginEarly ==
  /\ Step("idle", IF position + 1 >= FileSize THEN "done" ELSE "wait")
  /\ UNCHANGED <<paste, writer, flag, position, copied, got, torn>>

Begin ==
  /\ Step("idle", IF position >= FileSize THEN "done" ELSE "wait")
  /\ UNCHANGED <<paste, writer, flag, position, copied, got, torn>>

(* The busy loop on mWaitDataFlag.  Check tests mCancel before it clears   *)
(* the flag, Read after.                                                   *)
Woken ==
  /\ flag
  /\ Step("wait", IF kind = "file" THEN "clear" ELSE "test")
  /\ UNCHANGED <<paste, writer, flag, position, copied, got, torn>>

Clear ==
  /\ Step("clear", IF kind = "file" THEN "test" ELSE "advance")
  /\ flag' = FALSE
  /\ UNCHANGED <<paste, writer, position, copied, got, torn>>

Test ==
  /\ Step("test", IF cancel THEN "done" ELSE IF kind = "file" THEN "copy" ELSE "clear")
  /\ UNCHANGED <<paste, writer, flag, position, copied, got, torn>>

(* How far mProgressSize is ahead of mPosition, by DWORD arithmetic.       *)
Ahead == (progress - position) % DWordMod

(* Read loads mProgressSize for the memcpy, for *pcbRead, for mPosition.   *)
Copy ==
  /\ Step("copy", "count")
  /\ copied' = Ahead
  /\ UNCHANGED <<paste, writer, flag, position, got, torn>>

Count ==
  /\ Step("count", "advance")
  /\ LET n == Ahead
     IN  /\ got' = got \o [i \in 1..n |-> IF i <= copied /\ position + i <= Len(buffer)
                                        THEN buffer[position + i] ELSE Junk]
         /\ torn' = (torn \/ n # copied)
         /\ copied' = n
  /\ UNCHANGED <<paste, writer, flag, position>>

(* Mutant: Read loads mProgressSize once, and clears the flag when it ends.*)
AdvanceAndClear ==
  /\ Step("advance", "idle")
  /\ position' = IF kind = "file" THEN (position + copied) % DWordMod ELSE progress
  /\ flag' = FALSE
  /\ UNCHANGED <<paste, writer, copied, got, torn>>

(* Mutant: Read advances by what it was asked for.                         *)
AdvanceByCb ==
  /\ Step("advance", "idle")
  /\ position' = (position + MaxChunk) % DWordMod
  /\ UNCHANGED <<paste, writer, flag, copied, got, torn>>

Advance ==
  /\ Step("advance", "idle")
  /\ position' = progress
  /\ torn' = (torn \/ (kind = "file" /\ Ahead # copied))
  /\ UNCHANGED <<paste, writer, flag, copied, got>>

-----------------------------------------------------------------------------
Write == WriteRefused \/ WriteCopies \/ WriteCounts \/ WriteFlags \/ CancelFlags

Read == Begin \/ Woken \/ Clear \/ Test \/ Copy \/ Count \/ Advance

Next == Receive \/ ReceiveEnds \/ Write \/ Cancel \/ Read

Spec == Init /\ [][Next]_vars

(* The threads run, and the pasting program goes on reading; nothing makes *)
(* the network deliver.                                                    *)
Fairness == WF_vars(Write) /\ WF_vars(Read)

FairSpec == Spec /\ Fairness

-----------------------------------------------------------------------------
(* Properties *)

(* What the pasting program ends up with.                                  *)
Pasted == IF kind = "file" THEN got ELSE buffer

(* A paste that ends by itself has every byte of the source once, in order *)
(* and nothing else, also when the source sends more than it announced.    *)
(* It holds for files so far from 4 GB that WriteFile's sum cannot wrap,   *)
(* and if no chunk is counted among the loads of mProgressSize of one Read.*)
PastedExactly ==
  rpc = "done" /\ ~cancel /\ mapped /\ size + MaxChunk < DWordMod /\ ~torn
    => Pasted = Bytes(0, size)

(* The busy loop never waits for a flag nobody will raise: when there is   *)
(* data the reader has not passed, the flag is up, or about to be, or the  *)
(* reader has not yet looked how far the data go.                          *)
NoLostWakeup ==
  rpc \in {"idle", "wait"} /\ position # progress => flag \/ gpc = "flag"

(* WriteFile stays inside the memory of FileSize bytes, unless the file is *)
(* so close to 4 GB that the sum in its test wraps.                        *)
InBounds == FarFrom4GB => Len(buffer) <= FileSize

(* Cancel ends the paste of a file, wherever the reader is.  (An image's   *)
(* reader that has tested mCancel and then clears the flag loses it.)      *)
CancelEndsPaste == (cancel /\ kind = "file") ~> rpc = "done"

(* Once the last byte is in the paste ends, also when the source goes on   *)
(* sending: what is sent on top no longer fits.  Close to 4 GB it may fit  *)
(* after all, because the sum wraps.                                       *)
LastByteEndsPaste == (FarFrom4GB /\ progress = FileSize) ~> rpc = "done"
================================================================================
