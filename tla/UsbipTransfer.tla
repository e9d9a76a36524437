--------------------------- MODULE UsbipTransfer ---------------------------
(***************************************************************************)
(* What one URB carries over the connection: the client sends it as a      *)
(* CMD_SUBMIT with the data of an OUT transfer and the descriptors of the  *)
(* isochronous packets, the server unpacks it, the device transfers, the   *)
(* server sends the RET_SUBMIT, the client unpacks it.  The connection is  *)
(* a stream: a receiver that takes less or more from it than was sent      *)
(* reads the rest as something else and ends the connection, at once or at *)
(* the next header.  Who may send when is the matter of VhciPort,          *)
(* StubDevice and UsbipSession.                                            *)
(*                                                                         *)
(* The USB core and the device are external.  The hosts are little-endian. *)
(* Left out: fields that are only copied (start_frame, interval,           *)
(* error_count, setup, transfer_flags), sends that fail, kzalloc.          *)
(***************************************************************************)
EXTENDS Naturals, Sequences, SequencesExt, Functions

CONSTANTS
  Urbs,         \* what drivers submit: [iso, in, size, packets]
  PduBuffer,    \* the size of the buffer of usbip_alloc_iso_data_pdu: 1000000
  GapFirst      \* may the first packet start behind the start of the buffer?

ASSUME UsbipTransferAssumption ==
  /\ Urbs \subseteq [iso : BOOLEAN, in : BOOLEAN, size : Nat,
                     packets : Seq([offset : Nat, length : Nat])]
  /\ PduBuffer \in Nat

VARIABLES
  pc,   \* how far the URB is: enqueued, command, submitted, completed, reply,
        \* done, or down: the connection was ended
  urb,  \* the client's URB
  stub, \* the server's URB
  wire  \* the PDU under way

transferVars == <<pc, urb, stub, wire>>

\* A byte, by who put it where.
Byte(who, p) == <<who, p>>
Bytes(who, n) == [p \in 1 .. n |-> Byte(who, p)]

Sum(s) == FoldLeft(LAMBDA x, y : x + y, 0, s)
Field(packets, f) == [i \in DOMAIN packets |-> packets[i][f]]

\* Only an isochronous URB has packets: they are in order, apart, and in the
\* buffer.
WellFormed(u) ==
  /\ u.packets # <<>> => u.iso
  /\ \A i \in DOMAIN u.packets :
       u.packets[i].offset + u.packets[i].length <=
         IF i = Len(u.packets) THEN u.size ELSE u.packets[i + 1].offset

\* What usbip_alloc_iso_data_pdu puts into its buffer, packets and descriptors
\* (of 16 bytes), fits in: a URB that needs more writes past the end of it, and
\* what becomes of the kernel then is left out.
FitsBuffer(u) ==
  Sum(Field(u.packets, "length")) + 16 * Len(u.packets) <= PduBuffer

\* The URB of a driver, as the USB core hands it on.
Submitted(u) ==
  [iso |-> u.iso, in |-> u.in, actual_length |-> 0, status |-> "ok",
   packets |-> [i \in DOMAIN u.packets |->
                  [offset |-> u.packets[i].offset, length |-> u.packets[i].length,
                   actual_length |-> 0, status |-> "ok", net |-> FALSE]],
   buffer |-> Bytes(IF u.in THEN "zero" ELSE "client", u.size)]

NoPdu == [header |-> <<>>, data |-> <<>>, descs |-> <<>>]

TransferInit ==
  /\ pc = "enqueued"
  /\ \E u \in {u \in Urbs : /\ WellFormed(u) /\ FitsBuffer(u)
                            /\ u.packets # <<>> => GapFirst \/ u.packets[1].offset = 0} :
       urb = Submitted(u)
  /\ stub = Submitted([iso |-> FALSE, in |-> FALSE, size |-> 0, packets |-> <<>>])
  /\ wire = NoPdu

-----------------------------------------------------------------------------
(* Byte order: a field is in the host's or in the network's.               *)

Base == {"command", "seqnum", "devid", "direction", "ep"}
Fields(command) ==
  CASE command = "CMD_SUBMIT" -> {"transfer_flags", "transfer_buffer_length", "start_frame",
                                  "number_of_packets", "interval"}
    [] command = "RET_SUBMIT" -> {"status", "actual_length", "start_frame",
                                  "number_of_packets", "error_count"}
    [] command = "CMD_UNLINK" -> {"unlink seqnum"}
    [] command = "RET_UNLINK" -> {"status"}

Swap(net, fields) == (net \ fields) \cup (fields \ net)

\* Mutant of usbip_header_correct_endian: the command is always read after
\* the fields of every request are corrected.
usbip_header_correct_endianLate(h, send) ==
  LET base == Swap(h.net, Base)
  IN  [h EXCEPT !.net = IF "command" \in base THEN base ELSE Swap(base, Fields(h.command))]

\* The command is read where it is in the host's order; one that is not is
\* none that is known.
usbip_header_correct_endian(h, send) ==
  LET base == Swap(h.net, Base)
      read == IF send THEN h.net ELSE base
  IN  [h EXCEPT !.net = IF "command" \in read THEN base ELSE Swap(base, Fields(h.command))]

usbip_iso_packet_correct_endian(d) == [d EXCEPT !.net = ~ @]
usbip_alloc_iso_desc_pdu(u) ==
  [i \in DOMAIN u.packets |-> usbip_iso_packet_correct_endian(u.packets[i])]

Header(command, u, length) ==
  [command |-> command, in |-> u.in, length |-> length, status |-> u.status,
   number_of_packets |-> Len(u.packets), net |-> {}]

\* What the receiver takes from the stream: data of the size it expects, and
\* the descriptors; read with a wrong size they are anything.
usbip_recv(size, np) == Len(wire.data) = size /\ Len(wire.descs) = np

\* usbip_recv_iso: the packets, unless they do not make up the whole.
Unpacked == [i \in DOMAIN wire.descs |-> usbip_iso_packet_correct_endian(wire.descs[i])]
IsoFits(u, actual_length) ==
  u.iso /\ wire.descs # <<>> => Sum(Field(Unpacked, "actual_length")) = actual_length

Down == pc' = "down" /\ UNCHANGED <<urb, stub, wire>>

-----------------------------------------------------------------------------
vhci_send_cmd_submit ==
  /\ pc = "enqueued"
  /\ wire' = [header |-> usbip_header_correct_endian(Header("CMD_SUBMIT", urb, Len(urb.buffer)), TRUE),
              data |-> IF urb.in THEN <<>> ELSE urb.buffer,
              descs |-> IF urb.iso THEN usbip_alloc_iso_desc_pdu(urb) ELSE <<>>]
  /\ pc' = "command"
  /\ UNCHANGED <<urb, stub>>

\* The endpoint of the device has the type that the client's has (get_pipe).
stub_recv_cmd_submit ==
  /\ pc = "command"
  /\ LET h == usbip_header_correct_endian(wire.header, FALSE)
         size == IF h.in THEN 0 ELSE h.length
         np == IF urb.iso THEN h.number_of_packets ELSE 0
     IN  IF h.net # {} \/ ~ usbip_recv(size, np) \/ ~ IsoFits(urb, 0) THEN Down
         ELSE /\ stub' = [iso |-> urb.iso, in |-> h.in, actual_length |-> 0, status |-> "ok",
                          packets |-> Unpacked,
                          buffer |-> IF h.in THEN Bytes("zero", h.length) ELSE wire.data]
              /\ pc' = "submitted"
              /\ UNCHANGED <<urb, wire>>

\* External: the device fills or takes the buffer.
Complete ==
  /\ pc = "submitted" /\ ~ stub.iso
  /\ \E n \in 0 .. Len(stub.buffer), s \in {"ok", "error"} :
       stub' = [stub EXCEPT !.actual_length = n, !.status = s,
                  !.buffer = IF stub.in THEN Bytes("device", n) \o SubSeq(@, n + 1, Len(@)) ELSE @]
  /\ pc' = "completed"
  /\ UNCHANGED <<urb, wire>>

Within(d, p) == d.offset < p /\ p <= d.offset + d.actual_length

CompleteIso ==
  /\ pc = "submitted" /\ stub.iso
  /\ \E descs \in [DOMAIN stub.packets ->
                     UNION {[offset : {d.offset}, length : {d.length}, net : {FALSE},
                             actual_length : 0 .. d.length, status : {"ok", "error"}] :
                            d \in ToSet(stub.packets)}] :
       /\ \A i \in DOMAIN descs :
            /\ descs[i].offset = stub.packets[i].offset
            /\ descs[i].length = stub.packets[i].length
       /\ stub' = [stub EXCEPT !.packets = descs, !.actual_length = Sum(Field(descs, "actual_length")),
                     !.buffer = [p \in DOMAIN @ |->
                        IF stub.in /\ \E i \in DOMAIN descs : Within(descs[i], p)
                          THEN Byte("device", p) ELSE @[p]]]
  /\ pc' = "completed"
  /\ UNCHANGED <<urb, wire>>

\* Mutant of usbip_alloc_iso_data_pdu: the packets are not moved together.
usbip_alloc_iso_data_pduGaps(u) ==
  SubSeq(u.buffer, 1, Sum(Field(u.packets, "length")))

\* Of each packet the whole length, also where the device transferred less.
usbip_alloc_iso_data_pdu(u) ==
  FlattenSeq([i \in DOMAIN u.packets |->
    SubSeq(u.buffer, u.packets[i].offset + 1, u.packets[i].offset + u.packets[i].length)])

\* The status of an isochronous URB is that of the last packet that failed.
LastStatus(packets) ==
  FoldLeft(LAMBDA s, d : IF d.status = "ok" THEN s ELSE d.status, "ok", packets)

\* The data of an isochronous URB goes back whatever its direction.
stub_send_ret_submit ==
  /\ pc = "completed"
  /\ LET data == IF stub.iso THEN usbip_alloc_iso_data_pdu(stub)
                 ELSE IF stub.in THEN SubSeq(stub.buffer, 1, stub.actual_length) ELSE <<>>
         u == IF stub.iso THEN [stub EXCEPT !.actual_length = Len(data),
                                            !.status = LastStatus(stub.packets)]
              ELSE stub
     IN  /\ stub' = u
         /\ wire' = [header |-> usbip_header_correct_endian(
                                  Header("RET_SUBMIT", u, u.actual_length), TRUE),
                     data |-> data,
                     descs |-> IF u.iso THEN usbip_alloc_iso_desc_pdu(u) ELSE <<>>]
  /\ pc' = "reply"
  /\ UNCHANGED urb

\* memmove within the buffer, n bytes after "from" to those after "to".
Moved(buffer, to, from, n) ==
  [p \in DOMAIN buffer |-> IF to < p /\ p <= to + n THEN buffer[from + p - to] ELSE buffer[p]]

\* Mutant of usbip_pad_iso: from the first packet to the last.
usbip_pad_isoForward(u) ==
  LET np == Len(u.packets)
      actual == Field(u.packets, "actual_length")
      padded[i \in 1 .. np] ==
        IF i = 1 THEN u.buffer
        ELSE Moved(padded[i - 1], u.packets[i].offset, Sum(SubSeq(actual, 1, i - 1)), actual[i])
  IN  IF np = 0 THEN u.buffer ELSE padded[np]

\* From the last packet to the second: each goes to its offset.  The first
\* stays where it is.
usbip_pad_iso(u) ==
  LET np == Len(u.packets)
      actual == Field(u.packets, "actual_length")
      actualoffset(i) == u.actual_length - Sum(SubSeq(actual, i, np))
      padded[i \in 2 .. np + 1] ==
        IF i = np + 1 THEN u.buffer
        ELSE Moved(padded[i + 1], u.packets[i].offset, actualoffset(i), actual[i])
  IN  IF np = 0 \/ u.actual_length \in {0, Len(u.buffer)} THEN u.buffer ELSE padded[2]

vhci_recv_ret_submit ==
  /\ pc = "reply"
  /\ LET h == usbip_header_correct_endian(wire.header, FALSE)
         size == IF urb.in THEN h.length ELSE 0
         np == IF urb.iso THEN h.number_of_packets ELSE 0
         u == [urb EXCEPT !.status = h.status, !.actual_length = h.length, !.packets = Unpacked,
                 !.buffer = wire.data \o SubSeq(@, size + 1, Len(@))]
     IN  IF h.net # {} \/ ~ usbip_recv(size, np) \/ ~ IsoFits(urb, h.length) THEN Down
         ELSE /\ urb' = [u EXCEPT !.buffer = IF u.iso THEN usbip_pad_iso(u) ELSE @]
              /\ pc' = "done"
              /\ UNCHANGED <<stub, wire>>

TransferNext ==
  \/ vhci_send_cmd_submit \/ stub_recv_cmd_submit \/ Complete \/ CompleteIso
  \/ stub_send_ret_submit \/ vhci_recv_ret_submit

TransferSpec == TransferInit /\ [][TransferNext]_transferVars

-----------------------------------------------------------------------------
\* What a driver reads of a URB given back: for each byte that was transferred,
\* where it is.
Result(u) ==
  [p \in {p \in DOMAIN u.buffer : IF u.iso THEN \E i \in DOMAIN u.packets : Within(u.packets[i], p)
                                  ELSE p <= u.actual_length} |-> u.buffer[p]]

\* The device is given the data that the driver submitted, and the driver gets
\* what the device transferred, packet for packet, each byte in its place
\* (usbip_alloc_iso_data_pdu, usbip_pad_iso).
DataArrives ==
  /\ pc = "submitted" => stub = urb
  /\ pc = "done" =>
       /\ Field(urb.packets, "actual_length") = Field(stub.packets, "actual_length")
       /\ urb.in => Result(urb) = Result(stub)
       /\ ~ urb.in => urb.buffer = stub.buffer
       /\ urb.status = stub.status /\ urb.actual_length = stub.actual_length

\* The answer has data of another length than the client takes for it: an
\* isochronous transfer to the device, whose data nobody asked for, or one of
\* which the device transferred less than a whole packet.
Mismatched(u) ==
  \E i \in DOMAIN u.packets :
    IF u.in THEN u.packets[i].actual_length < u.packets[i].length
    ELSE u.packets[i].length > 0

\* A transfer that the device completes, whatever it transfers and in however
\* many packets, ends the connection exactly when it is one of those
\* (usbip_recv_xbuff, usbip_recv_iso): of all others, both ends agree on how
\* long every PDU is.
StaysConnected ==
  /\ pc = "down" => Mismatched(stub)
  /\ pc = "done" => ~ Mismatched(stub)

\* "This functions restores the padding which was removed for optimizing the
\* bandwidth during transfer": a packet of which less was transferred arrives.
\* None does (MCConversionsShort.cfg): usbip_alloc_iso_data_pdu sends
\* the padding too, and usbip_recv_iso ends the connection before usbip_pad_iso
\* is called.
ShortArrives == pc = "down" => ~ urb.in
=============================================================================
