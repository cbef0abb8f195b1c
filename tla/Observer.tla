------------------------------ MODULE Observer ------------------------------
(***************************************************************************)
(* OrderbookObserver of src/observer.rs: it turns the messages of the feed *)
(* into order books, one per asset, and publishes the visible top of all   *)
(* books when that may have changed.  Books are taken at the level of      *)
(* BookLevels: functions from price to size, read in price order.          *)
(*                                                                         *)
(* A frame carries one message or an array of them.  Each message is one   *)
(* step, and each change of a price_change message is a step of its own,   *)
(* as they are iterations of the code's loops.                             *)
(***************************************************************************)
EXTENDS Integers, Sequences, FiniteSets

CONSTANTS
    Asset,      \* asset ids the feed may name
    Labelled,   \* those the configuration gives a label
    Price, Size,
    Frames,     \* sequences of messages, each the content of one frame
    DISPLAY_DEPTH

Bids == INSTANCE BookLevels WITH IsBid <- TRUE, Snapshots <- {}
Asks == INSTANCE BookLevels WITH IsBid <- FALSE, Snapshots <- {}

(***************************************************************************)
(* Messages as the code reads them.  parses is FALSE when a field is       *)
(* missing or a number does not parse; any other event type is "other".    *)
(***************************************************************************)
Change == [asset_id : Asset, side : {"BUY", "SELL", "?"}, price : Price,
           size : Size, parses : BOOLEAN]
Message == [event_type : {"book"}, asset_id : Asset, parses : BOOLEAN,
            bids : Seq(Bids!Level), asks : Seq(Bids!Level)]
           \cup [event_type : {"price_change"}, price_changes : Seq(Change)]
           \cup [event_type : {"other"}]

ASSUME ObserverAssumption ==
    /\ Labelled \subseteq Asset
    /\ Price \subseteq Int /\ Size \subseteq Int
    /\ DISPLAY_DEPTH \in Nat \ {0}
    /\ Frames \subseteq Seq(Message)

VARIABLES
    books,         \* [asset with a book -> [bids, asks]]
    published,     \* the last TopBookSnapshot sent: [asset -> AssetBook]
    inbox,         \* messages of the current frame not handled yet
    changes,       \* changes of the current price_change not handled yet
    looping,       \* handle_price_change is in its loop
    should_print   \* whether a change so far reached the visible top

vars == <<books, published, inbox, changes, looping, should_print>>
loop == <<changes, looping, should_print>>

EmptyBook == [bids |-> <<>>, asks |-> <<>>]

ObserverInit ==
    /\ books = <<>> /\ published = <<>>
    /\ inbox = <<>> /\ changes = <<>>
    /\ looping = FALSE /\ should_print = FALSE

-----------------------------------------------------------------------------
Top(levels) == SubSeq(levels, 1, IF Len(levels) < DISPLAY_DEPTH
                                 THEN Len(levels) ELSE DISPLAY_DEPTH)

(* The visible part of a book.                                             *)
TopView(book) == [bids |-> Top(Bids!Ranked(book.bids)),
                  asks |-> Top(Asks!Ranked(book.asks))]

Cumulated(levels) ==
    LET cumul[r \in 0 .. Len(levels)] ==
            IF r = 0 THEN 0 ELSE cumul[r - 1] + levels[r].size
    IN  [r \in DOMAIN levels |-> [price |-> levels[r].price, size |-> levels[r].size,
                                  cumulative |-> cumul[r]]]

(* Options are sequences of one or no price.  A crossed book has spread    *)
(* zero, a book with an empty side none.                                   *)
Spread(bids, asks) ==
    IF bids = <<>> \/ asks = <<>> THEN <<>>
    ELSE IF asks[1].price > bids[1].price
         THEN <<asks[1].price - bids[1].price>> ELSE <<0>>

(* The best prices are given only where there is a spread.                 *)
AssetBook(book) ==
    LET bids == Bids!Ranked(book.bids)
        asks == Asks!Ranked(book.asks)
        spread == Spread(bids, asks)
    IN  [bids |-> Cumulated(Top(bids)), asks |-> Cumulated(Top(asks)),
         spread   |-> spread,
         best_bid |-> IF spread = <<>> THEN <<>> ELSE <<bids[1].price>>,
         best_ask |-> IF spread = <<>> THEN <<>> ELSE <<asks[1].price>>]

(* build_top_snapshot: every labelled asset that has a book.               *)
TopBookSnapshot(bs) == [a \in Labelled \cap DOMAIN bs |-> AssetBook(bs[a])]

Put(bs, a, book) == [b \in DOMAIN bs \cup {a} |-> IF b = a THEN book ELSE bs[b]]

-----------------------------------------------------------------------------
(* The observer is called with a frame and returns when it is handled.     *)
Handled == inbox = <<>> /\ ~looping

Take(frame) == /\ Handled
               /\ inbox' = frame
               /\ UNCHANGED <<books, published>> /\ UNCHANGED loop

OnJsonMessage == \E frame \in Frames : Take(frame)

(* The message to handle next, when none is under way.                     *)
Handling(event_type) ==
    /\ inbox # <<>>
    /\ ~looping
    /\ Head(inbox).event_type = event_type

HandleOther == /\ Handling("other")
               /\ inbox' = Tail(inbox)
               /\ UNCHANGED <<books, published>> /\ UNCHANGED loop

(* A book message for an asset without label, or that does not parse in    *)
(* full, changes nothing.                                                  *)
IgnoreBook ==
    /\ Handling("book")
    /\ Head(inbox).asset_id \notin Labelled \/ ~Head(inbox).parses
    /\ inbox' = Tail(inbox)
    /\ UNCHANGED <<books, published>> /\ UNCHANGED loop

(* mutant: the new book is laid over the old one                           *)
HandleBook_Merges ==
    /\ Handling("book")
    /\ Head(inbox).asset_id \in Labelled /\ Head(inbox).parses
    /\ LET msg  == Head(inbox)
           old  == IF msg.asset_id \in DOMAIN books THEN books[msg.asset_id] ELSE EmptyBook
           new  == [bids |-> Bids!Overlay(old.bids, msg.bids),
                    asks |-> Asks!Overlay(old.asks, msg.asks)]
       IN  /\ books' = Put(books, msg.asset_id, new)
           /\ published' = IF TopView(new) # TopView(old)
                           THEN TopBookSnapshot(books') ELSE published
    /\ inbox' = Tail(inbox)
    /\ UNCHANGED loop

(* mutant: books are kept for assets without label too                     *)
HandleBook_Unlabelled ==
    /\ Handling("book") /\ Head(inbox).parses
    /\ LET msg == Head(inbox)
           new == [bids |-> Bids!Overlay(<<>>, msg.bids),
                   asks |-> Asks!Overlay(<<>>, msg.asks)]
       IN  /\ books' = Put(books, msg.asset_id, new)
           /\ published' = TopBookSnapshot(books')
    /\ inbox' = Tail(inbox)
    /\ UNCHANGED loop

HandleBook ==
    /\ Handling("book")
    /\ Head(inbox).asset_id \in Labelled
    /\ Head(inbox).parses
    /\ LET msg  == Head(inbox)
           old  == IF msg.asset_id \in DOMAIN books THEN books[msg.asset_id] ELSE EmptyBook
           new  == [bids |-> Bids!Overlay(<<>>, msg.bids),
                    asks |-> Asks!Overlay(<<>>, msg.asks)]
       IN  /\ books' = Put(books, msg.asset_id, new)
           /\ published' = IF TopView(new) # TopView(old)
                           THEN TopBookSnapshot(books') ELSE published
    /\ inbox' = Tail(inbox)
    /\ UNCHANGED loop

HandlePriceChange ==
    /\ Handling("price_change")
    /\ changes' = Head(inbox).price_changes
    /\ looping' = TRUE
    /\ should_print' = FALSE
    /\ inbox' = Tail(inbox)
    /\ UNCHANGED <<books, published>>

(* The loop passes over a change that does not parse, whose asset has no   *)
(* label, whose side is neither BUY nor SELL, or that comes before the     *)
(* asset's first book.                                                     *)
Applicable(c) ==
    /\ c.asset_id \in Labelled /\ c.parses /\ c.side # "?"
    /\ c.asset_id \in DOMAIN books

SkipChange ==
    /\ looping
    /\ changes # <<>>
    /\ ~Applicable(Head(changes))
    /\ changes' = Tail(changes)
    /\ UNCHANGED <<books, published, inbox, looping, should_print>>

WithChange(book, c) ==
    IF c.side = "BUY"
    THEN [book EXCEPT !.bids = Bids!WithLevel(book.bids, c.price, c.size)]
    ELSE [book EXCEPT !.asks = Asks!WithLevel(book.asks, c.price, c.size)]

(* old_in_top and new_in_top: the price is among the first DISPLAY_DEPTH.  *)
InTop(book, c) ==
    LET top == IF c.side = "BUY" THEN TopView(book).bids ELSE TopView(book).asks
    IN  \E r \in DOMAIN top : top[r].price = c.price

(* mutant: only the level's place before the change counts                 *)
ReachesTop_OldOnly(old, new, c) == InTop(old, c)

ReachesTop(old, new, c) == InTop(old, c) \/ InTop(new, c)

(* mutant: published from inside the loop                                  *)
ApplyChange_Publishes ==
    /\ looping /\ changes # <<>> /\ Applicable(Head(changes))
    /\ LET c   == Head(changes)
           new == WithChange(books[c.asset_id], c)
       IN  /\ books' = Put(books, c.asset_id, new)
           /\ published' = IF ReachesTop(books[c.asset_id], new, c)
                           THEN TopBookSnapshot(books') ELSE published
    /\ changes' = Tail(changes)
    /\ UNCHANGED <<inbox, looping, should_print>>

ApplyChange ==
    /\ looping
    /\ changes # <<>>
    /\ Applicable(Head(changes))
    /\ LET c   == Head(changes)
           new == WithChange(books[c.asset_id], c)
       IN  /\ books' = Put(books, c.asset_id, new)
           /\ should_print' = (should_print \/ ReachesTop(books[c.asset_id], new, c))
    /\ changes' = Tail(changes)
    /\ UNCHANGED <<published, inbox, looping>>

PriceChangeDone ==
    /\ looping
    /\ changes = <<>>
    /\ published' = IF should_print THEN TopBookSnapshot(books) ELSE published
    /\ looping' = FALSE
    /\ should_print' = FALSE
    /\ UNCHANGED <<books, inbox, changes>>

ObserverNext ==
    \/ OnJsonMessage
    \/ HandleOther \/ IgnoreBook \/ HandleBook
    \/ HandlePriceChange \/ SkipChange \/ ApplyChange \/ PriceChangeDone

ObserverSpec == ObserverInit /\ [][ObserverNext]_vars

-----------------------------------------------------------------------------
(* Books are kept only for labelled assets and hold no empty level.        *)
IsSide(b) == DOMAIN b \subseteq Price /\ \A p \in DOMAIN b : b[p] \in Size \ {0}

TypeOK ==
    /\ DOMAIN books \subseteq Labelled
    /\ \A a \in DOMAIN books : IsSide(books[a].bids) /\ IsSide(books[a].asks)
    /\ DOMAIN published \subseteq DOMAIN books
    /\ inbox \in Seq(Message)
    /\ changes \in Seq(Change)
    /\ looping \in BOOLEAN /\ should_print \in BOOLEAN

(* What a reader sees of an asset: one never published looks empty.        *)
Seen(snapshot, a) == IF a \in DOMAIN snapshot THEN snapshot[a] ELSE AssetBook(EmptyBook)

(***************************************************************************)
(* The test for publishing, though it looks only at the place of the       *)
(* changed level, misses no change of the visible top: unless a publish is *)
(* due at the end of the message, what was last published shows every book *)
(* as it is, with its cumulative sizes, best prices and spread, also of    *)
(* the assets the message is not about.                                    *)
(***************************************************************************)
PublishedIsCurrent ==
    ~should_print =>
        \A a \in Labelled :
            Seen(published, a) = Seen(TopBookSnapshot(books), a)

(***************************************************************************)
(* A price_change message is published as a whole: nobody sees a top with  *)
(* some of its changes applied and others not.  What is published in a     *)
(* step shows the books as that step leaves them, all of them, whichever   *)
(* of them the message was about.                                          *)
(***************************************************************************)
PublishedWhole ==
    [][published' # published =>
          changes = <<>> /\ published' = TopBookSnapshot(books')]_vars

(***************************************************************************)
(* What a book message says of a side, and what a side holds: the prices   *)
(* and their sizes, in no order, without the levels of size zero.          *)
(***************************************************************************)
Levels(levels) == {<<levels[k].price, levels[k].size>> :
                      k \in {j \in DOMAIN levels : levels[j].size # 0}}
Held(side) == {<<p, side[p]>> : p \in DOMAIN side}

(* The next step handles a book message of this asset that counts.         *)
BookDue(a) ==
    /\ Handling("book")
    /\ Head(inbox).asset_id = a /\ a \in Labelled /\ Head(inbox).parses

(***************************************************************************)
(* A book message that parses and names a labelled asset is never passed   *)
(* over: in the one step that handles it, the asset's book comes to hold   *)
(* its levels, with their sizes, and no other, whatever it held before.    *)
(* No other message brings a book into being or removes one, so a change   *)
(* before the first snapshot leaves no trace, and none but a change of     *)
(* this asset touches its levels: not a book message of which one level    *)
(* does not parse, nor any message about another asset.                    *)
(***************************************************************************)
SnapshotReplaces ==
    [][\A a \in Asset :
          IF BookDue(a)
          THEN /\ a \in DOMAIN books'
               /\ Held(books'[a].bids) = Levels(Head(inbox).bids)
               /\ Held(books'[a].asks) = Levels(Head(inbox).asks)
          ELSE /\ a \in DOMAIN books' <=> a \in DOMAIN books
               /\ a \in DOMAIN books =>
                     \/ books'[a] = books[a]
                     \/ looping /\ changes # <<>> /\ Head(changes).asset_id = a]_vars
=============================================================================
