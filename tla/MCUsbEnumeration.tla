--------------------------- MODULE MCUsbEnumeration -------------------------
(* Two controllers: the first has a hub, with the device to pass on below    *)
(* it; the second an empty port and another, with names that are too long    *)
(* and a descriptor of length 0, so that the program ends over it, or never  *)
(* gets past it.                                                             *)
(* The strings are those of d1: in two languages, with repeated references,  *)
(* one that does not exist, a malformed descriptor that hides the rest, and  *)
(* a video interface, so that all strings are tried.                         *)
EXTENDS UsbEnumeration, TLC

CONSTANTS r1, r2, h1, d1, d2

MCControllers == 1 .. 2
MCRootHub     == <<r1, r2>>
MCWiring      == r1 :> <<h1>> @@ r2 :> <<NoNode, d2>> @@ h1 :> <<d1>>

block(t, sized, s, video) == [type |-> t, sized |-> sized, string |-> s, video |-> video]
MCDeviceStrings == d1 :> <<1, 3>> @@ d2 :> <<>> @@ h1 :> <<>>
MCBlocks ==
  d1 :> <<block("config", TRUE, 1, FALSE), block("iad", TRUE, 4, FALSE),
          block("interface", TRUE, 2, TRUE), block("interface", FALSE, 4, FALSE)>>
    @@ d2 :> <<block("config", TRUE, 1, FALSE), block("zero", TRUE, 0, FALSE)>>
    @@ h1 :> <<block("otherSpeed", TRUE, 1, FALSE)>>
MCLanguages == d1 :> <<1, 2>> @@ d2 :> <<1>> @@ h1 :> <<1>>
MCExisting  == d1 :> {1, 3, 4} @@ d2 :> {} @@ h1 :> {}
=============================================================================
