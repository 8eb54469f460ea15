----------------------------- MODULE MCWriteOutput -----------------------------
\* Requests for WriteOutput: one per case that routing tells apart.
EXTENDS WriteOutput

CONSTANTS a, b, x, y, z  \* two images, and names for outputs

To(route, sources, names, tokens, erase) ==
  [route |-> route, stdout |-> FALSE, sources |-> sources,
   names |-> [q \in Paths |-> names], tokens |-> tokens, erase |-> erase]

Move == To("rewrite", <<a>>, <<x>>, FALSE, TRUE)
MoveTwoToOne == To("rewrite", <<a, b>>, <<x>>, FALSE, TRUE)
MoveCounted == To("rewrite", <<a, b>>, <<y, z>>, TRUE, TRUE)
CopyToSameName == To("rewrite", <<a, b>>, <<x>>, TRUE, FALSE)
CopyOver == To("rewrite", <<b>>, <<a>>, FALSE, FALSE)
MoveOn == To("rewrite", <<x>>, <<z>>, FALSE, TRUE)
ExtractTwoToOne == To("extract", <<a, b>>, <<y>>, FALSE, FALSE)
ExtractAndErase == To("extract", <<b>>, <<y>>, FALSE, TRUE)
Sidecar == To("sidecar", <<a>>, <<z>>, FALSE, FALSE)
ToStdout == [To("rewrite", <<b>>, <<>>, FALSE, TRUE) EXCEPT !.stdout = TRUE]
SidecarToStdout == [To("sidecar", <<b>>, <<>>, FALSE, FALSE) EXCEPT !.stdout = TRUE]
InPlaceTwo == To("inplace", <<a, b>>, <<>>, FALSE, TRUE)
InPlaceTwice == To("inplace", <<x, b, b>>, <<>>, FALSE, FALSE)

AllRequests == {Move, MoveTwoToOne, MoveCounted, CopyToSameName, CopyOver, MoveOn,
                ExtractTwoToOne, ExtractAndErase, Sidecar, ToStdout, SidecarToStdout,
                InPlaceTwo, InPlaceTwice}
=============================================================================
