------------------------------- MODULE PacketWalk -------------------------------
(***************************************************************************)
(* What the transport of photon packets through subgrids and their copies  *)
(* stands for: walks of the packets through the cells of one undivided     *)
(* box, along their flight directions.                                     *)
(***************************************************************************)
EXTENDS Integers, Sequences

CONSTANTS
  Packet,    \* the packets
  Flights    \* the signs of the components of their flight directions

VARIABLES
  box,       \* [size: cells along the axes, periodic], fixed
  place,     \* place of every packet: a cell, or one of the following
  flight,    \* its flight direction
  turns      \* the number of its steps and scatterings

vars == <<box, place, flight, turns>>

Nowhere == <<>>         \* not emitted yet
Absorbed == <<0>>
Escaped == <<1>>        \* out of the box

Axis == 1 .. 3

InBox(c) ==
  /\ Len(c) = 3
  /\ \A a \in Axis : c[a] \in 0 .. box.size[a] - 1

(* The cell after a step over the faces across some of the axes. *)
Next3(c, f, S) ==
  [a \in Axis |->
     IF a \notin S THEN c[a]
     ELSE IF box.periodic[a] THEN (c[a] + f[a]) % box.size[a] ELSE c[a] + f[a]]

Init ==
  /\ place = [p \in Packet |-> Nowhere]
  /\ flight \in [Packet -> Flights]
  /\ turns = [p \in Packet |-> 0]
  /\ box \in [size : Seq(Nat), periodic : Seq(BOOLEAN)]

(* Some packets are emitted from a cell of the box. *)
Emit ==
  \E S \in SUBSET Packet :
    /\ S # {}
    /\ \A p \in S : place[p] = Nowhere /\ InBox(place'[p]) /\ flight'[p] \in Flights
    /\ \A p, q \in S : place'[p] = place'[q]
    /\ \A p \in Packet \ S : place'[p] = place[p] /\ flight'[p] = flight[p]
    /\ UNCHANGED <<box, turns>>

(* A packet moves to a next cell: across one face, or through an edge or a *)
(* corner across several at once.                                          *)
Step(p) ==
  /\ InBox(place[p])
  /\ \E S \in SUBSET {a \in Axis : flight[p][a] # 0} \ {{}} :
       place' = [place EXCEPT ![p] = Next3(@, flight[p], S)]
  /\ turns' = [turns EXCEPT ![p] = @ + 1]
  /\ UNCHANGED <<box, flight>>

(* It is absorbed in a cell, has left the box, or is reemitted where it is. *)
Absorb(p) ==
  /\ InBox(place[p])
  /\ place' = [place EXCEPT ![p] = Absorbed]
  /\ UNCHANGED <<box, flight, turns>>

Escape(p) ==
  /\ Len(place[p]) = 3
  /\ ~ InBox(place[p])
  /\ place' = [place EXCEPT ![p] = Escaped]
  /\ UNCHANGED <<box, flight, turns>>

Scatter(p) ==
  /\ InBox(place[p])
  /\ \E f \in Flights : flight' = [flight EXCEPT ![p] = f]
  /\ turns' = [turns EXCEPT ![p] = @ + 1]
  /\ UNCHANGED <<box, place>>

(* The next iteration starts when no packet is under way. *)
Restart ==
  /\ \A p \in Packet : Len(place[p]) # 3
  /\ place' = [p \in Packet |-> Nowhere]
  /\ flight' \in [Packet -> Flights]
  /\ turns' = [p \in Packet |-> 0]
  /\ box' = box

Next ==
  \/ Emit
  \/ \E p \in Packet : Step(p) \/ Absorb(p) \/ Escape(p) \/ Scatter(p)
  \/ Restart

Spec == Init /\ [][Next]_vars
=============================================================================
