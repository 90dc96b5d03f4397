------------------------------ MODULE Service ------------------------------
(* What a remote call carries: elAPP's el_read_data and el_write_data       *)
(* (elDbase.c) encode a request, rhApp's read_mem_data and write_mem_data   *)
(* decode it, use the data memory and encode the answer, elAPP decodes      *)
(* that. The encoding is elCommon.c's, with Base values to a byte. How the  *)
(* messages travel is module Channel: here a call is answered or gives up.  *)
(* main of rhApp writes to the memory meanwhile.                            *)
EXTENDS Integers, Sequences

CONSTANTS
  Base,         \* values of a byte: 256; lengths below Base / 2 take one byte
  DataBuf,      \* sizeof(dataBuf) of the handlers: 128
  MsgBuf,       \* sizeof(pValue) of a message: MAX_MSG_BUF_LEN, 2048
  Item,         \* Item[<<nPn, nDi>>]: [start, len] in s_pDataMem, as mem.c finds it
  MemLen,       \* bytes of s_pDataMem
  Calls,        \* what elAPP asks for: [op, pn, id, size] or [op, pn, id, data]
  MainWrites,   \* what main writes: [pn, id, data]
  Stack         \* what the bytes of a stack behind dataBuf or a message may hold

Half  == Base \div 2
Octet == 0 .. (Base - 1)

(* what the bytes of an unsigned int count, the lowest first *)
Weight == <<1, Base, Base * Base, Base * Base * Base>>

(* the numbers of k bytes: unsigned short (2), unsigned int (4) *)
UInt(k) == 0 .. (Base * Weight[k] - 1)

(* what elAPP writes fits into a message behind nPn, id and the length (11   *)
(* bytes at most): elTask.c writes 1 and 4 bytes                            *)
ASSUME ServiceAssumption ==
  /\ Half \in Nat /\ Half > 2 /\ Base = 2 * Half
  /\ DataBuf \in Nat /\ MemLen \in Nat
  /\ MsgBuf \in Nat /\ DataBuf + 5 <= MsgBuf
  /\ \A k \in DOMAIN Item : /\ Item[k].start \in Nat /\ Item[k].len \in UInt(4)
                            /\ Item[k].start + Item[k].len <= MemLen
  /\ \A j, k \in DOMAIN Item :
       \/ j = k
       \/ Item[j].start + Item[j].len <= Item[k].start
       \/ Item[k].start + Item[k].len <= Item[j].start
  /\ \A c \in Calls :
       /\ c.op \in {"read", "write"} /\ c.pn \in UInt(2) /\ c.id \in UInt(4)
       /\ c.op = "read" => c.size \in UInt(4)
       /\ c.op = "write" => c.data \in Seq(Octet) /\ Len(c.data) \in UInt(4)
       /\ c.op = "write" => Len(c.data) + 11 <= MsgBuf
  /\ \A w \in MainWrites : /\ <<w.pn, w.id>> \in DOMAIN Item /\ w.data \in Seq(Octet)
                           /\ Len(w.data) = Item[<<w.pn, w.id>>].len
  /\ Stack \subseteq Octet

(***************************************************************************)
(* elCommon.c. A buffer is cleared before it is filled: what was not       *)
(* written reads 0.                                                        *)
(***************************************************************************)
Bytes(buf, from, n) ==
  [i \in 1 .. n |-> IF from + i - 1 <= Len(buf) THEN buf[from + i - 1] ELSE 0]

(* xdr_add_uint16 (k = 2), xdr_add_uint32 (k = 4): the highest byte first *)
xdr_add_uint(n, k) == [i \in 1 .. k |-> (n \div Weight[k + 1 - i]) % Base]

(* byte j of the number that s holds, the lowest first *)
ByteOf(s, j) == IF j <= Len(s) THEN s[Len(s) + 1 - j] ELSE 0

(* xdr_get_uint16, xdr_get_uint32 *)
xdr_get_uint(s) ==
  ByteOf(s, 1) * Weight[1] + ByteOf(s, 2) * Weight[2] + ByteOf(s, 3) * Weight[3]
    + ByteOf(s, 4) * Weight[4]

(* the bytes of a length that does not fit into one with the mark *)
nBytes(n) ==
  IF n < Weight[2] THEN 1 ELSE IF n < Weight[3] THEN 2 ELSE IF n < Weight[4] THEN 3 ELSE 4

(* mutant of xdr_add_variantlen: nSize <= 128 *)
xdr_add_variantlen_128(n) ==
  IF n <= Half THEN <<n>> ELSE <<Half + nBytes(n)>> \o xdr_add_uint(n, nBytes(n))

xdr_add_variantlen(n) ==
  IF n < Half THEN <<n>> ELSE <<Half + nBytes(n)>> \o xdr_add_uint(n, nBytes(n))

(* mutant of xdr_get_variantlen: the bytes of a long length are not skipped *)
xdr_get_variantlen_first(buf, from) ==
  LET first == Bytes(buf, from, 1)[1]
  IN  IF first < Half THEN [len |-> first, pos |-> 1]
      ELSE [len |-> xdr_get_uint(Bytes(buf, from + 1, first - Half)), pos |-> 1]

(* the length, and the bytes it took *)
xdr_get_variantlen(buf, from) ==
  LET first == Bytes(buf, from, 1)[1]
  IN  IF first < Half THEN [len |-> first, pos |-> 1]
      ELSE [len |-> xdr_get_uint(Bytes(buf, from + 1, first - Half)),
            pos |-> 1 + (first - Half)]

xdr_add_OCTET_STRING(data) == xdr_add_variantlen(Len(data)) \o data

(* mutant of xdr_get_OCTET_STRING: the length is not compared with len *)
xdr_get_OCTET_STRING_any(buf, from, len) ==
  LET v == xdr_get_variantlen(buf, from) IN Bytes(buf, from + v.pos, v.len)

(* a string longer than len is taken as an empty one *)
xdr_get_OCTET_STRING(buf, from, len) ==
  LET v == xdr_get_variantlen(buf, from)
  IN  IF v.len > len THEN <<>> ELSE Bytes(buf, from + v.pos, v.len)

VARIABLES
  mem,          \* s_pDataMem, from byte 0
  alive,        \* rhApp runs
  pc,           \* "idle", "sent", "answered": elAPP's call; "done": it has returned
  call,         \* the call under way, or the last one
  msg,          \* the request: iop and pValue
  ack,          \* the answer: errNo and pValue
  ret, out,     \* what the call returned, and outBuf
  overrun,      \* history: an item was written with more bytes than it has
  heap,         \* a write ran past the end of s_pDataMem
  held,         \* history: what the item that was read held when it was served
  meant         \* history: meant[k]: what item k should hold

vars == <<mem, alive, pc, call, msg, ack, ret, out, overrun, heap, held, meant>>

Known(c) == <<c.pn, c.id>> \in DOMAIN Item

ItemOf(c) == Item[<<c.pn, c.id>>]

(* the bytes of the memory from an item on *)
MemAt(item, n) == [i \in 1 .. n |-> mem[item.start + i - 1]]

(* smallcpy into the memory; what runs past its end is not followed *)
MemWith(item, data) ==
  [x \in DOMAIN mem |-> IF x - item.start \in 0 .. (Len(data) - 1)
                        THEN data[x - item.start + 1] ELSE mem[x]]

(* the same for the item alone: data longer than the item is cut off *)
MeantWith(k, data) ==
  [meant EXCEPT ![k] = [i \in DOMAIN @ |-> IF i <= Len(data) THEN data[i] ELSE @[i]]]

NoMsg == [iop |-> "none", value |-> <<>>]
NoAck == [errNo |-> 0, value |-> <<>>]

Init ==
  /\ mem = [x \in 0 .. (MemLen - 1) |-> 0]
  /\ alive = TRUE
  /\ pc = "idle"
  /\ call \in Calls
  /\ msg = NoMsg
  /\ ack = NoAck
  /\ ret = 0
  /\ out = <<>>
  /\ overrun = FALSE
  /\ heap = FALSE
  /\ held = <<>>
  /\ meant = [k \in DOMAIN Item |-> [i \in 1 .. Item[k].len |-> 0]]

(***************************************************************************)
(* elAPP: the calls up to SmMsgSendWait.                                   *)
(***************************************************************************)

(* mutant of Send: nRet keeps what the last call returned *)
SendOldRet(c, iop, value) ==
  /\ pc \in {"idle", "done"}
  /\ pc' = "sent"
  /\ call' = c
  /\ msg' = [iop |-> iop, value |-> value]
  /\ ack' = NoAck
  /\ out' = <<>>
  /\ held' = <<>>
  /\ UNCHANGED <<mem, alive, ret, overrun, heap, meant>>

Send(c, iop, value) ==
  /\ pc \in {"idle", "done"}
  /\ pc' = "sent"
  /\ call' = c
  /\ msg' = [iop |-> iop, value |-> value]
  /\ ack' = NoAck
  /\ ret' = -1
  /\ out' = <<>>
  /\ held' = <<>>
  /\ UNCHANGED <<mem, alive, overrun, heap, meant>>

(* nPn and id, with which every request begins *)
Address(c) == xdr_add_uint(c.pn, 2) \o xdr_add_uint(c.id, 4)

SendRead(c) ==
  /\ c.op = "read"
  /\ Send(c, "read", Address(c))

SendWrite(c) ==
  /\ c.op = "write"
  /\ Send(c, "write", Address(c) \o xdr_add_OCTET_STRING(c.data))

(***************************************************************************)
(* rhApp: the handlers. What they look up is what they decode.             *)
(***************************************************************************)

(* mutant of Asked: the bytes of nPn are taken in the order of the memory *)
AskedSwapped ==
  [pn |-> xdr_get_uint(<<msg.value[2], msg.value[1]>>),
   id |-> xdr_get_uint(Bytes(msg.value, 3, 4))]

Asked ==
  [pn |-> xdr_get_uint(Bytes(msg.value, 1, 2)), id |-> xdr_get_uint(Bytes(msg.value, 3, 4))]

Answer(errNo, data) ==
  /\ pc' = "answered"
  /\ ack' = [errNo |-> errNo, value |-> xdr_add_OCTET_STRING(data)]
  /\ UNCHANGED alive

Die ==
  /\ alive' = FALSE
  /\ UNCHANGED <<pc, ack>>

(* An answer longer than pValue runs over the end of pMsgSend, on the stack *)
(* of el_msg_echo: rhApp dies of that or goes on. The part of the answer    *)
(* that is not in the message reads as bytes of elAPP's stack, as what is   *)
(* behind dataBuf does.                                                     *)
el_msg_echo(errNo, data) ==
  \/ Answer(errNo, data)
  \/ Len(xdr_add_OCTET_STRING(data)) > MsgBuf /\ Die

(* Of an item that is not there rh_mem_data_read_oop returns -1, and        *)
(* el_msg_echo copies 2^32 - 1 bytes: the second case of both handlers.     *)

(* dataBuf after rh_mem_data_read_oop, which copies no more than dataBuf    *)
(* holds but returns the length of the item: the answer goes on with what   *)
(* lies behind dataBuf                                                      *)
Copied(item, junk) ==
  [i \in 1 .. item.len |-> IF i <= DataBuf THEN mem[item.start + i - 1] ELSE junk]

read_mem_data ==
  /\ alive /\ pc = "sent" /\ msg.iop = "read"
  /\ \/ /\ Known(Asked)
        /\ \E junk \in Stack :
             el_msg_echo(IF ItemOf(Asked).len > 0 THEN 0 ELSE 1, Copied(ItemOf(Asked), junk))
        /\ held' = IF Known(call) THEN MemAt(ItemOf(call), ItemOf(call).len) ELSE <<>>
     \/ ~Known(Asked) /\ Die /\ UNCHANGED held
  /\ UNCHANGED <<mem, call, msg, ret, out, overrun, heap, meant>>

(* rh_mem_data_write_oop returns 0 when it has written: errNo stays 1. Its  *)
(* check of the length is commented out.                                    *)
write_mem_data ==
  /\ alive /\ pc = "sent" /\ msg.iop = "write"
  /\ \/ /\ Known(Asked)
        /\ LET data == xdr_get_OCTET_STRING(msg.value, 7, DataBuf)
           IN  /\ mem' = MemWith(ItemOf(Asked), data)
               /\ heap' = (heap \/ ItemOf(Asked).start + Len(data) > MemLen)
        /\ el_msg_echo(1, <<>>)
        /\ IF Known(call) /\ Len(call.data) <= DataBuf
           THEN /\ meant' = MeantWith(<<call.pn, call.id>>, call.data)
                /\ overrun' = (overrun \/ Len(call.data) > ItemOf(call).len)
           ELSE UNCHANGED <<meant, overrun>>
     \/ ~Known(Asked) /\ Die /\ UNCHANGED <<mem, overrun, heap, meant>>
  /\ UNCHANGED <<call, msg, ret, out, held>>

(* what was written behind s_pDataMem makes the C library or rhApp die, at  *)
(* once or later                                                            *)
HeapDeath ==
  /\ alive /\ heap
  /\ Die
  /\ UNCHANGED <<mem, call, msg, ret, out, overrun, heap, held, meant>>

(* rh_mem_data_write_oop by main *)
MainWrite(w) ==
  /\ alive
  /\ mem' = MemWith(ItemOf(w), w.data)
  /\ meant' = MeantWith(<<w.pn, w.id>>, w.data)
  /\ UNCHANGED <<alive, pc, call, msg, ack, ret, out, overrun, heap, held>>

(***************************************************************************)
(* elAPP: the calls from SmMsgSendWait on.                                 *)
(***************************************************************************)
ReadReturn ==
  /\ pc = "answered" /\ call.op = "read"
  /\ pc' = "done"
  /\ out' = IF ack.errNo = 0 THEN xdr_get_OCTET_STRING(ack.value, 1, call.size) ELSE out
  /\ ret' = Len(out')
  /\ UNCHANGED <<mem, alive, call, msg, ack, overrun, heap, held, meant>>

(* el_write_data returns what SmMsgSendWait does and does not see errNo *)
WriteReturn ==
  /\ pc = "answered" /\ call.op = "write"
  /\ pc' = "done"
  /\ ret' = 0
  /\ UNCHANGED <<mem, alive, call, msg, ack, out, overrun, heap, held, meant>>

(* no answer in time, or a dead rhApp *)
GiveUp ==
  /\ pc \in {"sent", "answered"}
  /\ pc' = "done"
  /\ UNCHANGED <<mem, alive, call, msg, ack, ret, out, overrun, heap, held, meant>>

Next ==
  \/ \E c \in Calls : SendRead(c) \/ SendWrite(c)
  \/ read_mem_data
  \/ write_mem_data
  \/ HeapDeath
  \/ \E w \in MainWrites : MainWrite(w)
  \/ ReadReturn
  \/ WriteReturn
  \/ GiveUp

Spec == Init /\ [][Next]_vars

(***************************************************************************)
(* Properties.                                                             *)
(***************************************************************************)
Returned(op) == pc = "done" /\ call.op = op /\ ret # -1

(* A read that is answered returns the length of the item when outBuf can   *)
(* take it and 0 otherwise, and outBuf is what the item held when rhApp     *)
(* served the read, up to the size of the handler's dataBuf: a longer item  *)
(* ends in bytes of the handler's stack.                                    *)
ReadIsItem ==
  Returned("read") =>
    /\ Known(call)
    /\ ret = IF ItemOf(call).len <= call.size THEN ItemOf(call).len ELSE 0
    /\ \A i \in 1 .. ret : i <= DataBuf => out[i] = held[i]

(* As long as no write was longer than its item, every item holds what the  *)
(* last write of elAPP or of main put there: requests longer than dataBuf   *)
(* change nothing, shorter ones change their item only, and nothing of a    *)
(* request is lost or moved on its way through the encoding.                *)
ItemsKept ==
  ~overrun => \A k \in DOMAIN Item : MemAt(Item[k], Item[k].len) = meant[k]

(* the memory holds what call c has to write, from its item's first byte on *)
Holds(c) ==
  \A i \in 1 .. Len(c.data) :
    ItemOf(c).start + i - 1 < MemLen => mem[ItemOf(c).start + i - 1] = c.data[i]

(* A write that returned 0 and fits into dataBuf is in the memory, although *)
(* the answer says errNo 1.                                                 *)
WriteIsKept ==
  Returned("write") /\ Len(call.data) <= DataBuf => Known(call) /\ Holds(call)

(* the answer to read c does not fit into a message *)
TooLong(c) ==
  /\ c.op = "read"
  /\ Len(xdr_add_variantlen(ItemOf(c).len)) + ItemOf(c).len > MsgBuf

(* rhApp dies of a call for one of three reasons: the call names an item    *)
(* that rhApp does not have, it reads an item whose answer is longer than a *)
(* message, or a write was longer than its item and ran past the end of     *)
(* s_pDataMem. A call that names an item and stays within its length does   *)
(* no harm, whatever is encoded and decoded on the way.                     *)
DeathsOfCalls ==
  [][alive /\ ~alive' => ~Known(call) \/ TooLong(call) \/ (heap /\ overrun)]_vars

(***************************************************************************)
(* The inductive invariant: the request under way is that of the call, and *)
(* its answer is made of the item that the call names.                     *)
(***************************************************************************)
Open == pc \in {"sent", "answered"}

ServiceTypes ==
  /\ mem \in [0 .. (MemLen - 1) -> Octet]
  /\ alive \in BOOLEAN /\ overrun \in BOOLEAN /\ heap \in BOOLEAN
  /\ pc \in {"idle", "sent", "answered", "done"}
  /\ call \in Calls
  /\ meant \in [DOMAIN Item -> Seq(Octet)]
  /\ \A k \in DOMAIN Item : Len(meant[k]) = Item[k].len

RequestInv ==
  /\ Open => out = <<>> /\ ret = -1
  /\ Open => msg = [iop   |-> call.op,
                    value |-> IF call.op = "read" THEN Address(call)
                              ELSE Address(call) \o xdr_add_OCTET_STRING(call.data)]

(* the answer to a read is the item as it was, cut off at dataBuf *)
AnswerInv ==
  pc = "answered" /\ call.op = "read" =>
    /\ Known(call)
    /\ held \in [1 .. ItemOf(call).len -> Octet]
    /\ ack.errNo = (IF ItemOf(call).len > 0 THEN 0 ELSE 1)
    /\ \E junk \in Stack :
         ack.value = xdr_add_OCTET_STRING(
                       [i \in 1 .. ItemOf(call).len |-> IF i <= DataBuf THEN held[i] ELSE junk])

(* main writes nothing that elAPP writes: it writes energy registers, elAPP *)
(* the items of 6051                                                        *)
MainApart ==
  \A c \in Calls, w \in MainWrites :
    c.op = "write" /\ Known(c) /\ Len(c.data) <= DataBuf =>
      \/ ItemOf(c).start + Len(c.data) <= ItemOf(w).start
      \/ ItemOf(w).start + ItemOf(w).len <= ItemOf(c).start

WrittenInv ==
  /\ pc = "answered" /\ call.op = "write" => Known(call)
  /\ pc = "answered" /\ call.op = "write" /\ Len(call.data) <= DataBuf => Holds(call)
  /\ WriteIsKept

(* What is on its way between the applications is what was asked for and    *)
(* what the memory held: the request under way is that of the call, its     *)
(* answer comes from the item the call names, and every item holds what was *)
(* last written to it.                                                      *)
ServiceInv ==
  /\ ServiceTypes /\ RequestInv /\ AnswerInv /\ ReadIsItem /\ ItemsKept
  /\ heap => overrun
  /\ MainApart => WrittenInv

=============================================================================
