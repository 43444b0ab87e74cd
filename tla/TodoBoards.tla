----------------------------- MODULE TodoBoards -----------------------------
(* The boards of the to-do module: columns, cards, their labels and their     *)
(* checklists (modules/todo).  Every handler is one transaction; positions    *)
(* are order keys, computed by the server or, in a drag, by the client.       *)
EXTENDS FiniteSets, Lexorank

CONSTANTS Boards, Columns, Cards, Labels, Names, Items, NoRow,
          MaxKey  \* the length of the longest key given out

VARIABLES boards,    \* "none", "live" or "archived"
          columns, cards, labels, items, \* rows, or NoRow
          attached   \* card_labels

boardVars == <<boards, columns, cards, labels, items, attached>>

ColumnKinds == {"normal", "now", "done"}
ColumnsOf(b) == {k \in Columns : columns[k] # NoRow /\ columns[k].board = b}
CardsIn(k) == {c \in Cards : cards[c] # NoRow /\ cards[c].column = k}
IsDone(k) == columns[k].kind = "done"
KeysOf(C) == {cards[c].pos : c \in C}
ColumnKeys(K) == {columns[k].pos : k \in K}

\* What a client may send: any key its own copy of the algorithm can have computed
\* from the rows it has on screen, which may have moved since.
ClientKeys ==
  {k \in UNION {[1..n -> 0..(Base - 1)] : n \in 1..MaxKey} : k[Len(k)] # 0}

KeyFits(k) == Len(k) <= MaxKey

ColumnRow == [board : Boards, kind : ColumnKinds, pos : OrderKeys]
CardRow == [column : Columns, pos : OrderKeys, archived : BOOLEAN, done : BOOLEAN]

\* What is taken of the constants: there is a digit between two others, and the marker is no row.
BoardConstants ==
  /\ Base \in Nat /\ Base >= 3 /\ MaxKey \in Nat
  /\ IsFiniteSet(Columns) /\ IsFiniteSet(Cards) /\ NoRow \notin ColumnRow \cup CardRow

BoardsInit ==
  /\ boards = [b \in Boards |-> "none"]
  /\ columns = [k \in Columns |-> NoRow] /\ cards = [c \in Cards |-> NoRow]
  /\ labels = [l \in Labels |-> NoRow] /\ items = [i \in Items |-> NoRow]
  /\ attached = {}

----------------------------------------------------------------------------
\* Boards.  A hard delete takes everything on the board with it (foreign keys).

CreateBoard(b) ==
  /\ boards[b] = "none"
  /\ boards' = [boards EXCEPT ![b] = "live"]
  /\ UNCHANGED <<columns, cards, labels, items, attached>>

UpdateBoard(b, archived) ==
  /\ boards[b] # "none"
  /\ boards' = [boards EXCEPT ![b] = IF archived THEN "archived" ELSE "live"]
  /\ UNCHANGED <<columns, cards, labels, items, attached>>

\* ON DELETE CASCADE, from columns down.
DropColumns(K) ==
  LET gone == UNION {CardsIn(k) : k \in K}
  IN /\ columns' = [k \in Columns |-> IF k \in K THEN NoRow ELSE columns[k]]
     /\ cards' = [c \in Cards |-> IF c \in gone THEN NoRow ELSE cards[c]]
     /\ items' = [i \in Items |-> IF items[i] # NoRow /\ items[i].card \in gone THEN NoRow ELSE items[i]]

DeleteBoard(b) ==
  /\ boards[b] # "none"
  /\ boards' = [boards EXCEPT ![b] = "none"]
  /\ DropColumns(ColumnsOf(b))
  /\ labels' = [l \in Labels |-> IF labels[l] # NoRow /\ labels[l].board = b THEN NoRow ELSE labels[l]]
  /\ attached' = {p \in attached : cards'[p[1]] # NoRow /\ labels'[p[2]] # NoRow}

----------------------------------------------------------------------------
\* Columns.

CreateColumn(k, b, kind) ==
  /\ columns[k] = NoRow /\ boards[b] # "none"
  /\ LET pos == AtTheEnd(ColumnKeys(ColumnsOf(b)))
     IN KeyFits(pos) /\ columns' = [columns EXCEPT ![k] = [board |-> b, kind |-> kind, pos |-> pos]]
  /\ UNCHANGED <<boards, cards, labels, items, attached>>

\* The stamps of the cards that are in it stay as they were.
UpdateColumn(k, kind) ==
  /\ columns[k] # NoRow
  /\ columns' = [columns EXCEPT ![k].kind = kind]
  /\ UNCHANGED <<boards, cards, labels, items, attached>>

\* One column, wherever the client says: no other column is looked at.
MoveColumn(k, pos) ==
  /\ columns[k] # NoRow /\ KeyFits(pos)
  /\ columns' = [columns EXCEPT ![k].pos = pos]
  /\ UNCHANGED <<boards, cards, labels, items, attached>>

Distinct(K) == \A j, k \in K : j # k => columns[j].pos # columns[k].pos

\* The keys of a batch are not to collide with those of the board's other columns.
Collides(b, order) ==
  \E k \in ColumnsOf(b) \ DOMAIN order, j \in DOMAIN order : order[j] = columns[k].pos

\* order: a new key for each column of the batch.
ReorderColumns(b, order) ==
  /\ DOMAIN order # {} /\ DOMAIN order \subseteq ColumnsOf(b)
  /\ \A j, k \in DOMAIN order : j # k => order[j] # order[k]
  /\ ~Collides(b, order)
  /\ \A k \in DOMAIN order : KeyFits(order[k])
  /\ columns' = [k \in Columns |-> IF k \in DOMAIN order THEN [columns[k] EXCEPT !.pos = order[k]]
                                   ELSE columns[k]]
  /\ UNCHANGED <<boards, cards, labels, items, attached>>

DeleteColumn(k, cascade) ==
  /\ columns[k] # NoRow
  /\ CardsIn(k) = {} \/ cascade
  /\ DropColumns({k})
  /\ attached' = {p \in attached : cards'[p[1]] # NoRow}
  /\ UNCHANGED <<boards, labels>>

----------------------------------------------------------------------------
\* Cards.

\* Unstamped, whatever the column.
CreateCard(c, k) ==
  /\ cards[c] = NoRow /\ columns[k] # NoRow
  /\ LET pos == AtTheEnd(KeysOf(CardsIn(k)))
     IN /\ KeyFits(pos)
        /\ cards' = [cards EXCEPT ![c] = [column |-> k, pos |-> pos, archived |-> FALSE, done |-> FALSE]]
  /\ UNCHANGED <<boards, columns, labels, items, attached>>

UpdateCard(c, archived) ==
  /\ cards[c] # NoRow
  /\ cards' = [cards EXCEPT ![c].archived = archived]
  /\ UNCHANGED <<boards, columns, labels, items, attached>>

\* A slip: keys up to the anchor's own.
CardKeyUpTo(c, anchor) ==
  LastKey({q \in KeysOf(CardsIn(cards[anchor].column) \ {c}) :
             q = cards[anchor].pos \/ Precedes(q, cards[anchor].pos)})

\* The last key before the anchor's, the moved card left out.
CardKeyBefore(c, anchor) ==
  LastKey({q \in KeysOf(CardsIn(cards[anchor].column) \ {c}) : Precedes(q, cards[anchor].pos)})

\* The stamp is kept inside the done columns and lost outside them.
PutCard(c, k, pos) ==
  /\ cards[c] # NoRow /\ columns[k] # NoRow /\ KeyFits(pos)
  /\ cards' = [cards EXCEPT ![c].column = k, ![c].pos = pos, ![c].done = IsDone(k)]
  /\ UNCHANGED <<boards, columns, labels, items, attached>>

MoveCardTo(c, k, pos) == PutCard(c, k, pos)
MoveCardToEnd(c, k) == columns[k] # NoRow /\ PutCard(c, k, AtTheEnd(KeysOf(CardsIn(k))))

\* An anchor that is gone or elsewhere means the end of the column.
MoveCardBefore(c, k, anchor) ==
  IF cards[anchor] # NoRow /\ cards[anchor].column = k
  THEN PutCard(c, k, Between(CardKeyBefore(c, anchor), cards[anchor].pos))
  ELSE MoveCardToEnd(c, k)

DeleteCard(c) ==
  /\ cards[c] # NoRow
  /\ cards' = [cards EXCEPT ![c] = NoRow]
  /\ items' = [i \in Items |-> IF items[i] # NoRow /\ items[i].card = c THEN NoRow ELSE items[i]]
  /\ attached' = {p \in attached : p[1] # c}
  /\ UNCHANGED <<boards, columns, labels>>

----------------------------------------------------------------------------
\* Checklists and links: rows of a card.

CreateItem(i, c) ==
  /\ items[i] = NoRow /\ cards[c] # NoRow
  /\ items' = [items EXCEPT ![i] = [card |-> c, done |-> FALSE]]
  /\ UNCHANGED <<boards, columns, cards, labels, attached>>

UpdateChecklistItem(i, done) ==
  /\ items[i] # NoRow
  /\ items' = [items EXCEPT ![i].done = done]
  /\ UNCHANGED <<boards, columns, cards, labels, attached>>

DeleteItem(i) ==
  /\ items[i] # NoRow
  /\ items' = [items EXCEPT ![i] = NoRow]
  /\ UNCHANGED <<boards, columns, cards, labels, attached>>

ChecklistProgress(c) ==
  LET of == {i \in Items : items[i] # NoRow /\ items[i].card = c}
  IN [total |-> Cardinality(of), done |-> Cardinality({i \in of : items[i].done})]

----------------------------------------------------------------------------
\* Labels: a name is taken once on a board.  Any label may be put on any card.

NameTaken(b, n, l) ==
  \E m \in Labels \ {l} : labels[m] # NoRow /\ labels[m].board = b /\ labels[m].name = n

CreateLabel(l, b, n) ==
  /\ labels[l] = NoRow /\ boards[b] # "none" /\ ~NameTaken(b, n, l)
  /\ labels' = [labels EXCEPT ![l] = [board |-> b, name |-> n]]
  /\ UNCHANGED <<boards, columns, cards, items, attached>>

UpdateLabel(l, n) ==
  /\ labels[l] # NoRow /\ ~NameTaken(labels[l].board, n, l)
  /\ labels' = [labels EXCEPT ![l].name = n]
  /\ UNCHANGED <<boards, columns, cards, items, attached>>

DeleteLabel(l) ==
  /\ labels[l] # NoRow
  /\ labels' = [labels EXCEPT ![l] = NoRow]
  /\ attached' = {p \in attached : p[2] # l}
  /\ UNCHANGED <<boards, columns, cards, items>>

AttachLabel(c, l) ==
  /\ cards[c] # NoRow /\ labels[l] # NoRow
  /\ attached' = attached \cup {<<c, l>>}
  /\ UNCHANGED <<boards, columns, cards, labels, items>>

DetachLabel(c, l) ==
  /\ attached' = attached \ {<<c, l>>}
  /\ UNCHANGED <<boards, columns, cards, labels, items>>

BoardsNext ==
  \/ \E b \in Boards : CreateBoard(b) \/ DeleteBoard(b)
  \/ \E b \in Boards, archived \in BOOLEAN : UpdateBoard(b, archived)
  \/ \E k \in Columns, b \in Boards, kind \in ColumnKinds : CreateColumn(k, b, kind)
  \/ \E k \in Columns, kind \in ColumnKinds : UpdateColumn(k, kind)
  \/ \E k \in Columns, pos \in ClientKeys : MoveColumn(k, pos)
  \/ \E b \in Boards : \E K \in SUBSET ColumnsOf(b) :
       \E order \in [K -> ClientKeys] : ReorderColumns(b, order)
  \/ \E k \in Columns, cascade \in BOOLEAN : DeleteColumn(k, cascade)
  \/ \E c \in Cards, k \in Columns : CreateCard(c, k) \/ MoveCardToEnd(c, k)
  \/ \E c \in Cards, archived \in BOOLEAN : UpdateCard(c, archived)
  \/ \E c \in Cards, k \in Columns, pos \in ClientKeys : MoveCardTo(c, k, pos)
  \/ \E c, anchor \in Cards, k \in Columns : MoveCardBefore(c, k, anchor)
  \/ \E c \in Cards : DeleteCard(c)
  \/ \E i \in Items, c \in Cards : CreateItem(i, c)
  \/ \E i \in Items, done \in BOOLEAN : UpdateChecklistItem(i, done)
  \/ \E i \in Items : DeleteItem(i)
  \/ \E l \in Labels, b \in Boards, n \in Names : CreateLabel(l, b, n)
  \/ \E l \in Labels, n \in Names : UpdateLabel(l, n)
  \/ \E l \in Labels : DeleteLabel(l)
  \/ \E c \in Cards, l \in Labels : AttachLabel(c, l) \/ DetachLabel(c, l)

BoardsSpec == BoardsInit /\ [][BoardsNext]_boardVars

-----------------------------------------------------------------------------

\* A card moved before another lands before it and behind everything that came
\* earlier, however often the same gap has been split and whatever clients dragged
\* there; a card moved to the end lands behind everything (MoveCard, lexorank).
CardLands(c, k, anchor) ==
  LET others == CardsIn(k) \ {c}
      before == {d \in others : Precedes(cards[d].pos, cards[anchor].pos)}
  IN IF anchor # c /\ anchor \in CardsIn(k)
     THEN /\ Precedes(cards'[c].pos, cards[anchor].pos)
          /\ \A d \in before : Precedes(cards[d].pos, cards'[c].pos)
     ELSE anchor # c => \A d \in others : Precedes(cards[d].pos, cards'[c].pos)

\* Renumbering several columns at once never leaves two with one key, whichever of
\* them trade places and whatever the columns outside the batch hold (ReorderColumns).
Renumbered(b) ==
  LET K == {k \in ColumnsOf(b) : columns'[k] \notin {columns[k], NoRow}}
  IN ReorderColumns(b, [k \in K |-> columns'[k].pos]) /\ Distinct(ColumnsOf(b))

Placed ==
  /\ \A c, anchor \in Cards, k \in Columns : MoveCardBefore(c, k, anchor) => CardLands(c, k, anchor)
  /\ \A b \in Boards : Renumbered(b) => Distinct(ColumnsOf(b))'

LandsWhereAsked == [][Placed]_boardVars
=============================================================================
