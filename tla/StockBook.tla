------------------------------ MODULE StockBook ------------------------------
(***************************************************************************)
(* What an ice plant's stock promises, without transactions: a promise to  *)
(* an order is made only of stock not promised to others, a sale takes     *)
(* either unpromised stock or what its order was promised, and a promise   *)
(* ends when it is taken or given up.  Stock comes in at any time.         *)
(***************************************************************************)
EXTENDS Integers, FiniteSetsExt

CONSTANTS Items, Orders, Stocked

VARIABLES
  quantity,   \* per item
  promised    \* per order and item

bookVars == <<quantity, promised>>

Nothing == [i \in Items |-> 0]
Free(i) == quantity[i] - MapThenSumSet(LAMBDA o : promised[o][i], Orders)

BookInit == /\ quantity = Stocked
            /\ promised = [o \in Orders |-> Nothing]

\* To an order that holds nothing, out of what is free.
Promise(o) == /\ promised[o] = Nothing
              /\ \A i \in Items : promised'[o][i] \in 0..Free(i)
              /\ promised' = [promised EXCEPT ![o] = promised'[o]]
              /\ UNCHANGED quantity

SellFree == /\ \A i \in Items : quantity[i] - quantity'[i] \in 0..Free(i)
            /\ UNCHANGED promised

Receive == (\A i \in Items : quantity'[i] >= quantity[i]) /\ UNCHANGED promised

SellPromised(o) ==
  /\ \A i \in Items : /\ promised'[o][i] \in 0..promised[o][i]
                      /\ quantity[i] - quantity'[i] = promised[o][i] - promised'[o][i]
  /\ promised' = [promised EXCEPT ![o] = promised'[o]]

GiveUp(o) == /\ promised' = [promised EXCEPT ![o] = Nothing]
             /\ UNCHANGED quantity

BookNext == SellFree \/ Receive \/ \E o \in Orders : Promise(o) \/ SellPromised(o) \/ GiveUp(o)

BookSpec == BookInit /\ [][BookNext]_bookVars
=============================================================================
