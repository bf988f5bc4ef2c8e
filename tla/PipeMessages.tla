------------------------------ MODULE PipeMessages ------------------------------
(***************************************************************************)
(* The messages of the named pipe between the Qt client and its server     *)
(* (windows_clipboard/common/global_def.h, global_def.cpp): a tag, a type, *)
(* a code and the length of the content, big-endian, then the content,     *)
(* whose fields have fixed widths except a name at its end.                *)
(*                                                                         *)
(* A message is a function from the names of its fields to their bytes,    *)
(* and "kind" to the name of its struct.  Names are sequences of UTF-16    *)
(* units on the pipe and addresses are IPv4; both conversions lose nothing *)
(* and are left out.                                                       *)
(***************************************************************************)
EXTENDS ByteBuffer, FiniteSets

CONSTANTS
  TAG_NAME,  \* the bytes every message begins with
  LenWidth,  \* width of contentLength
  Width      \* Width[f]: width of field f

Fixed == {"status", "ip", "port", "clientID", "fileSize", "sentSize", "timeStamp"}

ASSUME WidthAssumption ==
  /\ TAG_NAME \in Seq(Byte)
  /\ LenWidth \in Nat \ {0}
  /\ Width \in [Fixed -> Nat]

(* PipeMessageType.                                                        *)
Request == 0
Response == 1
Notify == 2

(* The headers of the structs.                                             *)
headerInfo ==
  [GetConnStatusRequestMsg  |-> [type |-> Request,  code |-> 1],
   GetConnStatusResponseMsg |-> [type |-> Response, code |-> 1],
   UpdateClientStatusMsg    |-> [type |-> Notify,   code |-> 3],
   SendFileRequestMsg       |-> [type |-> Request,  code |-> 4],
   SendFileResponseMsg      |-> [type |-> Response, code |-> 4],
   UpdateProgressMsg        |-> [type |-> Notify,   code |-> 5]]

Kinds == DOMAIN headerInfo

messageLength == Len(TAG_NAME) + 2 + LenWidth

-----------------------------------------------------------------------------
(* toByteArray: the fields in the order they are written.                  *)

WithHeader(kind, content) ==
  TAG_NAME \o <<headerInfo[kind].type, headerInfo[kind].code>>
    \o BigEndian(Len(content), LenWidth) \o content

GetConnStatusRequestTo(m) == <<>>
GetConnStatusResponseTo(m) == m.status
UpdateClientStatusTo(m) == m.status \o m.ip \o m.port \o m.clientID \o m.clientName
SendFileRequestTo(m) ==
  m.ip \o m.port \o m.clientID \o m.fileSize \o m.timeStamp \o m.fileName
SendFileResponseTo(m) ==
  m.status \o m.ip \o m.port \o m.clientID \o m.fileSize \o m.timeStamp \o m.fileName
UpdateProgressTo(m) ==
  m.ip \o m.port \o m.clientID \o m.fileSize \o m.sentSize \o m.timeStamp \o m.fileName

toByteArray(m) ==
  WithHeader(m.kind,
    CASE m.kind = "GetConnStatusRequestMsg"  -> GetConnStatusRequestTo(m)
      [] m.kind = "GetConnStatusResponseMsg" -> GetConnStatusResponseTo(m)
      [] m.kind = "UpdateClientStatusMsg"    -> UpdateClientStatusTo(m)
      [] m.kind = "SendFileRequestMsg"       -> SendFileRequestTo(m)
      [] m.kind = "SendFileResponseMsg"      -> SendFileResponseTo(m)
      [] m.kind = "UpdateProgressMsg"        -> UpdateProgressTo(m))

-----------------------------------------------------------------------------
(* fromByteArray: the fields in the order they are read.                   *)

GetConnStatusRequestFrom == <<>>
GetConnStatusResponseFrom == <<"status">>
UpdateClientStatusFrom == <<"status", "ip", "port", "clientID", "clientName">>
SendFileRequestFrom ==
  <<"ip", "port", "clientID", "fileSize", "timeStamp", "fileName">>
SendFileResponseFrom ==
  <<"status", "ip", "port", "clientID", "fileSize", "timeStamp", "fileName">>
(* A mutant: two fields of the same width swapped.                         *)
ProgressFromSwapped ==
  <<"ip", "port", "clientID", "sentSize", "fileSize", "timeStamp", "fileName">>
UpdateProgressFrom ==
  <<"ip", "port", "clientID", "fileSize", "sentSize", "timeStamp", "fileName">>

FieldsFrom ==
  [GetConnStatusRequestMsg  |-> GetConnStatusRequestFrom,
   GetConnStatusResponseMsg |-> GetConnStatusResponseFrom,
   UpdateClientStatusMsg    |-> UpdateClientStatusFrom,
   SendFileRequestMsg       |-> SendFileRequestFrom,
   SendFileResponseMsg      |-> SendFileResponseFrom,
   UpdateProgressMsg        |-> UpdateProgressFrom]

Fields(kind) == {FieldsFrom[kind][i] : i \in DOMAIN FieldsFrom[kind]}

(* The fields are read from a buffer that holds the content, one after the *)
(* other; the name takes what is left.  The retrieve that empties the      *)
(* buffer takes it back to its front, and peek does not look where the     *)
(* content ends, so fields a content is too short for are read again from  *)
(* its beginning and, behind it, from the zeros of a new buffer.           *)
ReadFields(fields, content) ==
  LET offset[i \in 1..Len(fields)] ==
        IF i = 1 THEN 0 ELSE offset[i - 1] + Width[fields[i - 1]]
      start(i) == IF offset[i] < Len(content) THEN offset[i] ELSE 0
      name(i) == SubSeq(content, offset[i] + 1, Len(content))
  IN  [f \in {fields[i] : i \in DOMAIN fields} |->
        LET i == CHOOSE i \in DOMAIN fields : fields[i] = f
        IN  IF f \in Fixed
            THEN SubSeq(content \o Zeros(Width[f]), start(i) + 1, start(i) + Width[f])
            ELSE name(i)]

(* g_getCodeFromByteArray: is there a header?                              *)
HasHeader(data) ==
  Len(data) >= messageLength /\ SubSeq(data, 1, Len(TAG_NAME)) = TAG_NAME

typeOf(data) == data[Len(TAG_NAME) + 1]
codeOf(data) == data[Len(TAG_NAME) + 2]
contentLength(data) == UIntOf(SubSeq(data, Len(TAG_NAME) + 3, messageLength))

(* A mutant: the last byte has to wait for another message.                *)
CompleteLate(kind, data) ==
  /\ HasHeader(data)
  /\ kind = "GetConnStatusRequestMsg"
     \/ contentLength(data) < Len(data) - messageLength

(* The test all the fromByteArray make; GetConnStatusRequestMsg's takes    *)
(* the content for empty.                                                  *)
Complete(kind, data) ==
  /\ HasHeader(data)
  /\ kind = "GetConnStatusRequestMsg"
     \/ contentLength(data) <= Len(data) - messageLength

(* getMessageLength of what was read.                                      *)
FullLength(kind, data) ==
  messageLength
    + CASE kind = "GetConnStatusRequestMsg"  -> 0
        [] kind = "GetConnStatusResponseMsg" -> Width["status"]
        [] OTHER                             -> contentLength(data)

fromByteArray(kind, data) ==
  LET content == IF kind = "GetConnStatusRequestMsg" THEN <<>>
                 ELSE SubSeq(data, messageLength + 1, messageLength + contentLength(data))
      fields == ReadFields(FieldsFrom[kind], content)
  IN  [f \in DOMAIN fields \cup {"kind"} |-> IF f = "kind" THEN kind ELSE fields[f]]
================================================================================
