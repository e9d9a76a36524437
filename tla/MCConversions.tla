---------------------------- MODULE MCConversions ----------------------------
(* Two independent conversions, one after the other: messages encoded and    *)
(* decoded (Base64), and a URB's way over the connection and back            *)
(* (UsbipTransfer).                                                          *)
EXTENDS Base64, UsbipTransfer

CONSTANT MaxSize

Packet == [offset : 0 .. MaxSize, length : 0 .. MaxSize]
PacketLists == UNION {[1 .. n -> Packet] : n \in 0 .. 3}

MCUrbs ==
  [iso : {FALSE}, in : BOOLEAN, size : 0 .. MaxSize, packets : {<<>>}]
  \cup [iso : {TRUE}, in : BOOLEAN, size : {MaxSize}, packets : PacketLists]

MCInit == NoText /\ TransferInit
MCNext ==
  \/ TransferNext /\ text = <<>> /\ UNCHANGED text
  \/ Grow /\ pc = "enqueued" /\ urb.buffer = <<>> /\ urb.in /\ ~ urb.iso
     /\ UNCHANGED transferVars
MCSpec == MCInit /\ [][MCNext]_<<text, transferVars>>
=============================================================================
