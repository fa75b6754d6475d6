---------------------------- MODULE MCRasterPass ----------------------------
(* RasterPass on a volume of 2 to 4 slices of a few rows, every r1 and r2. *)
EXTENDS RasterPass

MCModels == [r0 : {1, 3}, r1 : -1 .. 3, r2 : -1 .. 3]
=============================================================================
