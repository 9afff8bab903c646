--------------------------- MODULE MC_ClientStream ---------------------------
(* Request shapes for BUFFER_SIZE = 4 (a 5-byte buffer, 3 bytes per first *)
(* header read) and MAX_CONTENT_LENGTH = 3.                                *)
EXTENDS ClientStream

MkReq(h, b, t, v) == [hdr |-> h, body |-> b, to |-> t, valid |-> v]
HN == MkReq(2, 0, "HANDLER", TRUE)   \* no body
HS == MkReq(2, 2, "HANDLER", TRUE)   \* small body, total = BUFFER_SIZE
HB == MkReq(2, 3, "HANDLER", TRUE)   \* small body, total 5 > BUFFER_SIZE
UP == MkReq(2, 4, "HANDLER", TRUE)   \* upload
PN == MkReq(2, 0, "PROXY", TRUE)     \* proxied, no body
PX == MkReq(2, 3, "PROXY", TRUE)     \* proxied, streamed body
BAD == MkReq(2, 0, "HANDLER", FALSE) \* rejected by the parser

MCLayouts == {<<HN, PN>>, <<HS, PN>>, <<PN, HN>>, <<HB, PN>>, <<UP, HN>>, <<PX, HN>>,
              <<PN, PX>>}
(* Streams with a header the parser rejects.                               *)
MCBadLayouts == {<<BAD>>, <<PN, BAD>>}
(* Every keep-alive sequence of three well-formed requests.               *)
MCShapes == {HN, HS, HB, UP, PN, PX}
MCLayouts3 == {<<a, b, c>> : a, b, c \in MCShapes}
MCPassLayouts == MCLayouts \cup MCLayouts3
MCAllLayouts == MCLayouts \cup MCBadLayouts
=============================================================================
