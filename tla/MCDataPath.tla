------------------------------ MODULE MCDataPath ------------------------------
(* Clients of DataPath for TLC: which slices each operation is called with. *)
EXTENDS DataPathProofs

user == buffer + 1024 * Page
Dma(first, len) == [base |-> user + first, len |-> len]
Plain(len) == [base |-> 0, len |-> len]

\* Every operation: up to several chunks of two pages; PRP lists, among them one
\* of 128 pages, followed by a chunk of one page, and one whose last page is not
\* full; copies of one, two and three pages; batches of up to three pages per
\* command, which take the third page from the PRP list.  Some of the calls
\* panic, and some are not expressible.
Calls ==
  [op \in Direct \cup Prp \cup Copied \cup Batched |->
     CASE op \in Direct -> {Dma(512, 512), Dma(0, 6144), Dma(4096, 20480)}
       [] op = "prp_write" -> {Dma(0, 512), Dma(0, 12288), Dma(8192, 129 * Page)}
       [] op = "prp_read" -> {Dma(0, 512), Dma(0, 12288), Dma(0, 14336)}
       [] op \in Copied -> {Plain(11), Plain(6144), Plain(12288)}
       [] op \in Batched -> {Plain(11), Plain(4096), Plain(16384), Plain(24576)}]

\* Copies of three pages.
LongCopies == [op \in {"write_copied"} |-> {Plain(12288)}]

\* Copies that fit 2 MiB many times over.
Copies == [op \in Copied |-> {Plain(11), Plain(6144)}]
==============================================================================
