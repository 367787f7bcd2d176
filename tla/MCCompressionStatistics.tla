----------------------- MODULE MCCompressionStatistics -----------------------
(***************************************************************************)
(* Two texts, an image that is known to be incompressible, an empty text   *)
(* and a long link.  With 32 as the rate 1 the means of four samples that  *)
(* do not compress at all (0, 16, 24, 28, 30) pass the limit of 0.9, and   *)
(* 40 is a file that has grown.                                            *)
(***************************************************************************)
EXTENDS CompressionStatistics

CONSTANTS t1, t2, image, empty, link

MCFiles == {t1, t2, image, empty, link}
MCExtensionOf == [f \in MCFiles |-> CASE f = image -> 2 [] f = link -> 3 [] OTHER -> 1]
MCKindOf == [f \in MCFiles |-> CASE f = empty -> "empty file" [] f = link -> "long link"
                                 [] OTHER -> "file"]
MCIncompressible == {2}
MCRawRates == {8, 40}

=============================================================================
