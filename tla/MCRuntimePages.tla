--------------------------- MODULE MCRuntimePages ---------------------------
(***************************************************************************)
(* RuntimePages with a hosted runtime and one behind the C ABI, three      *)
(* handles and two blocks, so that handles are moved onto owning handles   *)
(* and onto themselves while a freed block is allocated again by the other *)
(* runtime.                                                                *)
(***************************************************************************)
EXTENDS RuntimePages

Request(page_count, alignment, flags) ==
  [page_count |-> page_count, alignment |-> alignment, flags |-> flags]

(* Valid requests of two alignments (the default, and one below MaxAlign)  *)
(* and one request for every check of AllocatePages.                       *)
MCRequests ==
  {Request(1, 0, {"Zeroed"}), Request(1, 1, {}),
   Request(0, 0, {}), Request(1, 3, {}), Request(1, 0, {"Unknown"}),
   Request(1, 0, {"Dma"}), Request(9, 0, {})}

=============================================================================
