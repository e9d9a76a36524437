----------------------------- MODULE UrbCustody -----------------------------
(***************************************************************************)
(* What a port of the USB/IP client driver promises the USB core about     *)
(* every URB it is handed: where the URB may be, and that the port gives   *)
(* it back at most once.  VhciPort implements this.                        *)
(*                                                                         *)
(* The promise is weaker than one would like: the port may lose an URB,    *)
(* because vhci_tx_urb and vhci_recv_ret_submit return early with the URB  *)
(* neither queued nor given back.  A lost URB can only come back when a    *)
(* dequeue had read its hcpriv before.                                     *)
(***************************************************************************)
CONSTANT Urbs

VARIABLE place  \* where each URB is

Places == {"core",       \* with the USB core: not given to the port
           "enqueue",    \* in vhci_urb_enqueue
           "pushed",     \* linked to priv_tx or priv_rx
           "returning",  \* taken off priv_rx, about to be given back
           "lost"}       \* accepted, and nowhere in the port

CustodyTypeOK == place \in [Urbs -> Places]

CustodyInit == place = [u \in Urbs |-> "core"]

Move(u, from, to) == place[u] = from /\ place' = [place EXCEPT ![u] = to]

Submit(u)   == Move(u, "core", "enqueue")
Push(u)     == Move(u, "enqueue", "pushed")
PickUp(u)   == Move(u, "pushed", "returning")
GiveBackUrb(u) == \E from \in {"enqueue", "pushed", "returning", "lost"} :
                    Move(u, from, "core")
Lose(u)     == \E from \in {"enqueue", "returning"} : Move(u, from, "lost")

CustodyNext ==
  \E u \in Urbs :
    Submit(u) \/ Push(u) \/ PickUp(u) \/ GiveBackUrb(u) \/ Lose(u)

Custody == CustodyInit /\ [][CustodyNext]_place
=============================================================================
