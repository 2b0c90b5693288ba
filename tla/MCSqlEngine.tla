---------------------------- MODULE MCSqlEngine -----------------------------
(***************************************************************************)
(* SqlEngine for two runs.  In the first one table name, in two spellings, *)
(* stands for up to three tables in turn, with schemas of one and two      *)
(* columns, over two root pages, so that a CREATE TABLE finds no heap and  *)
(* a name is dropped and created again with another schema.                *)
(***************************************************************************)
EXTENDS SqlEngine

t == <<"t", "t">>
T == <<"t", "T">>
u == <<"u", "u">>
NoName == <<"", "">>

Column(name, type) == [name |-> name, type |-> type]
a == Column(<<"a", "a">>, "Integer")
A == Column(<<"a", "A">>, "Text")
b == Column(<<"b", "b">>, "Text")
c == Column(<<"c", "c">>, "Text")

Row(width, bind, eval, encode, store) ==
  [width |-> width, bind |-> bind, eval |-> eval, encode |-> encode,
   store |-> store]
one == Row(1, "Ok", "Ok", "Ok", "Ok")
two == Row(2, "Ok", "Ok", "Ok", "Ok")
large == Row(1, "Ok", "Ok", "Ok", "InvalidArgument")

Create(name, columns) == [op |-> "CreateTable", name |-> name, columns |-> columns]
Insert(name, row) == [op |-> "Insert", name |-> name, row |-> row]

(* Each row suits one of the schemas; the evaluation of one of them fails. *)
MCStatements ==
  {Create(t, <<a>>), Create(T, <<a, b>>),
   Insert(t, one), Insert(T, two),
   Insert(t, Row(1, "Ok", "ExecutionError", "Ok", "Ok")),
   [op |-> "Select", name |-> T]}

MCTransactions ==
  {[mode |-> "ReadWrite", state |-> "Active"],
   [mode |-> "ReadOnly", state |-> "Active"],
   [mode |-> "ReadWrite", state |-> "Committed"]}

(* A direct Catalog::CreateTable leaves the table without storage.         *)
MCTableRequests == {[name |-> t, columns |-> <<b>>]}

(* Plans of several rows: one that succeeds where it fits, and two that    *)
(* fail after some rows, for the width of a row, in the codec, or because  *)
(* a row fits no page.                                                     *)
MCRowLists ==
  {<<two, two>>, <<one, one, large>>,
   <<two, Row(2, "Ok", "Ok", "TypeMismatch", "Ok")>>}

-----------------------------------------------------------------------------
(* For the run that is about the catalog: two tables that come and go      *)
(* under all spellings, with indexes of the same name on both, and         *)
(* statements and requests that fail at each check of binder and catalog.  *)

CatalogStatements ==
  {[op |-> "Unparsable", name |-> NoName],
   Create(t, <<a, b>>), Create(u, <<a>>), Create(u, <<a, A>>),
   Create(u, <<a, b, c>>),
   Insert(t, Row(2, "TypeMismatch", "Ok", "Ok", "Ok"))}

CatalogTransactions == {[mode |-> "ReadWrite", state |-> "Active"]}

CatalogTableRequests ==
  {[name |-> T, columns |-> <<a>>],
   [name |-> NoName, columns |-> <<a>>],
   [name |-> t, columns |-> << >>],
   [name |-> t, columns |-> <<a, A>>],
   [name |-> t, columns |-> <<a, b, c>>],
   [name |-> u, columns |-> <<a, Column(<<"b", "b">>, "Null")>>]}

IndexRequest(table_name, name, key_columns) ==
  [table_name |-> table_name, name |-> name, key_columns |-> key_columns]

CatalogIndexRequests ==
  {IndexRequest(T, <<"i", "I">>, <<0>>), IndexRequest(u, <<"i", "i">>, <<0>>),
   IndexRequest(t, <<"j", "j">>, <<1>>), IndexRequest(t, <<"j", "j">>, <<0, 0>>),
   IndexRequest(t, NoName, <<0>>), IndexRequest(NoName, <<"i", "i">>, <<0>>),
   IndexRequest(t, <<"j", "j">>, << >>)}

=============================================================================
