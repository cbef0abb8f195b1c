---------------------------- MODULE BasicBookSide ----------------------------
(***************************************************************************)
(* BookSide of src/basic_orderbook.rs, the Vec-based reference: one side's *)
(* levels, sorted after each operation.                                    *)
(***************************************************************************)
EXTENDS BookLevels

VARIABLE levels   \* a sequence of levels, best first

BasicInit == levels = <<>>

(* sort_by is stable.                                                      *)
Sorted(ls) ==
    LET Ahead(j, k) == \/ ComesBefore(ls[j].price, ls[k].price)
                       \/ ls[j].price = ls[k].price /\ j < k
    IN  [r \in DOMAIN ls |->
            ls[CHOOSE k \in DOMAIN ls :
                  Cardinality({j \in DOMAIN ls : Ahead(j, k)}) = r - 1]]

(* mutants: a new level is not sorted in; a second one is pushed           *)
Entered_Unsorted(p, s) == Append(levels, [price |-> p, size |-> s])
Set_Pushes(p, s) == levels' = Sorted(Append(levels, [price |-> p, size |-> s]))

Entered(p, s) == Sorted(Append(levels, [price |-> p, size |-> s]))

FromLevels == \E ls \in Snapshots : levels' = Sorted(ls)

(* retain keeps the levels of other prices in the order they are in.       *)
Retained(ls, p) ==
    LET others == {k \in DOMAIN ls : ls[k].price # p}
    IN  [r \in 1 .. Cardinality(others) |->
            ls[CHOOSE k \in others : Cardinality({j \in others : j < k}) = r - 1]]

Withdraw(p) == levels' = Retained(levels, p)

Has(p) == \E k \in DOMAIN levels : levels[k].price = p

(* The first level of that price takes the size; sorting changes nothing.  *)
Set(p, s) ==
    LET k == CHOOSE i \in DOMAIN levels :
                 levels[i].price = p /\ \A j \in 1 .. i - 1 : levels[j].price # p
    IN  levels' = Sorted([levels EXCEPT ![k].size = s])

BasicApplyLevel ==
    \E p \in Price, s \in Size :
        \/ s = 0 /\ Withdraw(p)
        \/ s # 0 /\ Has(p) /\ Set(p, s)
        \/ s # 0 /\ ~Has(p) /\ levels' = Entered(p, s)

BasicNext == FromLevels \/ BasicApplyLevel
BasicSpec == BasicInit /\ [][BasicNext]_levels

-----------------------------------------------------------------------------
Book == INSTANCE BookSide WITH
    book <- Overlay(<<>>, levels), MaxLevels <- Cardinality(Price)

(* Levels of size zero aside, the reference does what BookSide says: it    *)
(* agrees with FastBookSide, which implements it too.                      *)
BasicImplementsBookSide == Book!Spec

(* A price has at most one level and the best comes first, after any mix   *)
(* of snapshots and changes.                                               *)
RankedByPrice ==
    \A j, k \in DOMAIN levels : j < k => ComesBefore(levels[j].price, levels[k].price)

(***************************************************************************)
(* ARCHITECTURE.md calls this book the reference implementation, "used as  *)
(* the correctness reference in tests": what its iterator yields is what   *)
(* the fast book yields.  Refuted: from_levels keeps a snapshot's levels   *)
(* of size zero, which the fast book's apply_levels skips.                 *)
(***************************************************************************)
YieldsReference == levels = Ranked(Overlay(<<>>, levels))
=============================================================================
