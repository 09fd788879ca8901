----------------------------- MODULE MCWebServer -----------------------------
(***************************************************************************)
(* A small instance of WebServer: two maps, of which the second is added   *)
(* under a slug of its own and again under the slug of the first, and      *)
(* requests that take every path through the handlers.                     *)
(***************************************************************************)
EXTENDS WebServer

Request(verb, slug, offset, value, cred) ==
  [verb |-> verb, slug |-> slug, offset |-> offset, value |-> value, cred |-> cred]

Map(slug, regs) == [slug |-> slug, regs |-> regs]

MCMaps == <<Map("spi", "m1"), Map("gpio", "m2"), Map("spi", "m2")>>

List1  == Request("list", "spi", "none", 0, "good")
Read   == Request("read", "spi", "rw", 0, "good")
ReadWo == Request("read", "spi", "wo", 0, "good")
Write  == Request("write", "spi", "rw", 1, "good")
Gpio   == Request("write", "gpio", "wo", 1, "good")
Wide   == Request("write", "spi", "rw", 2, "good")
Nan    == Request("write", "none", "rw", NaN, "good")
NoMap  == Request("write", "none", "rw", 1, "good")
NoCred == Request("write", "spi", "rw", 1, "absent")

MCRequests == {List1, Read, ReadWo, Write, Gpio, Wide, Nan, NoMap, NoCred}
=============================================================================
