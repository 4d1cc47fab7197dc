---------------------------- MODULE MCSpiFlash ----------------------------
(* Three pages of two bytes, each erased or not: a write may end in its    *)
(* page, cross into the next, or cover a page between two others.          *)
EXTENDS SpiFlash
=============================================================================
