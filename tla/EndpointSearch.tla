--------------------------- MODULE EndpointSearch ---------------------------
(***************************************************************************)
(* USBH_MIDI::Init looks for the two endpoints of a MIDI device            *)
(* (usbh_midi.cpp): it asks for each configuration of the device, first as *)
(* MIDI, then as any device with bulk endpoints.  The configuration comes  *)
(* in pieces, and MidiDescParser puts the descriptors together, wherever   *)
(* the pieces are cut.                                                     *)
(*                                                                         *)
(* A byte is <<d, k>>, the kth byte of the dth descriptor: byte 1 is the   *)
(* length, byte 2 the type and byte 3 stands for the fields that are read. *)
(***************************************************************************)
EXTENDS Integers, FiniteSets, Sequences

CONSTANTS
  Devices,     (* what may be attached: sequences of configurations, each a *)
               (* sequence of descriptors [type, len, info]                 *)
  VarBuffer,   (* the parser's buffer, 16                                   *)
  PacketMax,   (* MIDI_EVENT_PACKET_SIZE, 64                                *)
  MaxAttached  (* bound: devices attached one after the other               *)

(* A descriptor is as long as its fields ask, and what is read of it fits  *)
(* the parser's buffer.                                                    *)
Direction == {"in", "out"}
Descriptor(x) ==
  /\ x.type \in {"configuration", "interface", "endpoint", "other"}
  /\ x.len \in IF x.type = "other" THEN 2 .. 255 ELSE 3 .. VarBuffer
  /\ x.type = "interface" => x.info \in BOOLEAN
  /\ x.type = "endpoint" => x.info.bulk \in BOOLEAN /\ x.info.dir \in Direction

(* A configuration starts with the one descriptor of its kind, and its     *)
(* endpoints stand behind an interface.                                    *)
WellFormed(c) ==
  /\ Len(c) \in Nat \ {0} /\ DOMAIN c = 1 .. Len(c)
  /\ \A d \in DOMAIN c : Descriptor(c[d]) /\ (c[d].type = "configuration" <=> d = 1)
  /\ \A d \in DOMAIN c : c[d].type = "endpoint" =>
       \E j \in DOMAIN c : j < d /\ c[j].type = "interface"

ASSUME BufferAssumption == VarBuffer \in 3 .. 255 /\ PacketMax \in Nat
ASSUME DevicesAssumption ==
  \A x \in Devices : /\ Len(x) \in Nat /\ DOMAIN x = 1 .. Len(x)
                     /\ \A n \in DOMAIN x : WellFormed(x[n])

VARIABLES
  device, attached,
  pc,          (* "idle", "conf", "parse", "found", "rejected", "failed"    *)
  isMidiSearch, conf, bNumEP, bConfNum,        (* locals of Init, conf is i *)
  epInfo,      (* of the driver: never cleared, also not by Release         *)
  place,       (* the last byte of the configuration that was parsed        *)
  piece,       (* TRUE while the piece that was delivered has more          *)
  stateParseDescr, varBuffer, countDown, isGoodInterface, nEPs, confValue

search == <<isMidiSearch, conf, bNumEP, bConfNum>>
stream == <<place, piece>>
parser == <<stateParseDescr, varBuffer, countDown, isGoodInterface, nEPs, confValue>>
searchVars == <<device, attached, pc, search, epInfo, stream, parser>>

Least(a, b) == IF a <= b THEN a ELSE b
NoEp        == [addr |-> 0, size |-> 0]
Config      == device[conf]
Waits       == ~piece /\ countDown > 0       (* the parser has returned     *)

SearchInit ==
  /\ device = <<>> /\ attached = 0 /\ pc = "idle"
  /\ isMidiSearch = TRUE /\ conf = 1 /\ bNumEP = 1 /\ bConfNum = 0
  /\ epInfo = [x \in Direction |-> NoEp]
  /\ place = <<1, 0>> /\ piece = FALSE
  /\ stateParseDescr = "header" /\ varBuffer = <<>> /\ countDown = 2
  /\ isGoodInterface = FALSE /\ nEPs = 0 /\ confValue = 0

-----------------------------------------------------------------------------
(* USBH_MIDI::Init: a device that has its address is searched.             *)
Attach ==
  /\ pc = "idle" /\ attached < MaxAttached
  /\ device' \in Devices /\ attached' = attached + 1
  /\ isMidiSearch' = TRUE /\ conf' = 1 /\ bNumEP' = 1 /\ bConfNum' = 0
  /\ pc' = "conf"
  /\ UNCHANGED <<epInfo, stream, parser>>

Detach == /\ pc \in {"found", "rejected", "failed"} /\ pc' = "idle"
          /\ UNCHANGED <<device, attached, search, epInfo, stream, parser>>

(* The next configuration gets a new parser, whose isGoodInterface and     *)
(* confValue no constructor sets.                                          *)
AskConfiguration ==
  /\ pc = "conf" /\ conf <= Len(device)
  /\ pc' = "parse" /\ place' = <<1, 0>> /\ piece' = FALSE
  /\ stateParseDescr' = "header" /\ varBuffer' = <<>> /\ countDown' = 2
  /\ isGoodInterface' \in BOOLEAN /\ nEPs' = 0
  /\ UNCHANGED <<device, attached, search, epInfo, confValue>>

(* Any request may fail: Release, and no device.                           *)
RequestFails ==
  /\ pc = "parse" /\ Waits
  /\ pc' = "failed"
  /\ UNCHANGED <<device, attached, search, epInfo, stream, parser>>

(* The byte behind place, and whether p is the last of the configuration.  *)
NextByte == IF place[2] < Config[place[1]].len THEN <<place[1], place[2] + 1>>
                                               ELSE <<place[1] + 1, 1>>
AtEnd(p) == p[1] = Len(Config) /\ p[2] = Config[p[1]].len

EndOfConfiguration ==
  /\ pc = "parse" /\ Waits /\ AtEnd(place)
  /\ bNumEP' = bNumEP + nEPs
  /\ IF bNumEP' > 1 THEN bConfNum' = confValue /\ pc' = "found" /\ UNCHANGED conf
                    ELSE conf' = conf + 1 /\ pc' = "conf" /\ UNCHANGED bConfNum
  /\ UNCHANGED <<device, attached, isMidiSearch, epInfo, stream, parser>>

(* No configuration is left: the second step allows all devices.           *)
NoConfiguration ==
  /\ pc = "conf" /\ conf > Len(device)
  /\ IF isMidiSearch THEN isMidiSearch' = FALSE /\ conf' = 1 /\ UNCHANGED pc
                     ELSE pc' = "rejected" /\ UNCHANGED <<isMidiSearch, conf>>
  /\ UNCHANGED <<device, attached, bNumEP, bConfNum, epInfo, stream, parser>>

-----------------------------------------------------------------------------
(* MidiDescParser::Parse gets a piece of the configuration.                *)
Deliver ==
  /\ pc = "parse" /\ Waits /\ ~AtEnd(place)
  /\ piece' = TRUE
  /\ UNCHANGED <<device, attached, pc, search, epInfo, place, parser>>

(* What a byte says of its descriptor, if it is the kth.                   *)
Junk       == [type |-> "other", len |-> 2, info |-> FALSE]
Says(b, k) == IF b[2] = k THEN Config[b[1]] ELSE Junk
DscrLen    == Says(varBuffer[1], 1).len
DscrType   == Says(varBuffer[2], 2).type
Info       == Says(varBuffer[3], 3).info

(* One turn of the loop of MultiByteValueParser::Parse or of               *)
(* ByteSkipper::Skip; the byte may be the last one of the piece.  The      *)
(* value is complete when countDown is 0.                                  *)
Count ==
  /\ piece /\ countDown > 0
  /\ place' = NextByte
  /\ piece' \in IF AtEnd(NextByte) THEN {FALSE} ELSE BOOLEAN
  /\ countDown' = countDown - 1

Header ==
  /\ pc = "parse" /\ stateParseDescr = "header"
  /\ Count
  /\ varBuffer' = Append(varBuffer, NextByte)
  /\ UNCHANGED <<device, attached, pc, search, epInfo, stateParseDescr,
                 isGoodInterface, nEPs, confValue>>

(* Mutant: the two bytes that are in the buffer are read again.            *)
BodyLenWhole == DscrLen
BodyLen == (DscrLen - 2) % (IF DscrType = "other" THEN 65536 ELSE 256)

(* The type of an interface is enough to clear the flag.                   *)
StillGood == isGoodInterface /\ DscrType # "interface"
HeaderDone ==
  /\ pc = "parse" /\ stateParseDescr = "header" /\ countDown = 0
  /\ stateParseDescr' = "body" /\ countDown' = BodyLen
  /\ isGoodInterface' = StillGood
  /\ UNCHANGED <<device, attached, pc, search, epInfo, stream, varBuffer, nEPs, confValue>>

Body ==
  /\ pc = "parse" /\ stateParseDescr = "body"
  /\ Count
  /\ varBuffer' = IF DscrType = "other" THEN varBuffer ELSE Append(varBuffer, NextByte)
  /\ UNCHANGED <<device, attached, pc, search, epInfo, stateParseDescr,
                 isGoodInterface, nEPs, confValue>>

-----------------------------------------------------------------------------
(* A descriptor is complete.  The counter of endpoints starts again at an  *)
(* interface that is looked at, unless two have been found in one.         *)
(* Mutant: it goes on counting from one interface to the next.             *)
FoundSoFarAll == nEPs
FoundSoFar == IF nEPs < 2 THEN 0 ELSE nEPs

Interface ==
  /\ DscrType = "interface"
  /\ IF isMidiSearch => Info THEN isGoodInterface' = TRUE /\ nEPs' = FoundSoFar
                             ELSE UNCHANGED <<isGoodInterface, nEPs>>
  /\ UNCHANGED <<epInfo, confValue>>

(* EndpointXtract takes a bulk endpoint for its direction.                 *)
Endpoint ==
  /\ DscrType = "endpoint"
  /\ IF isGoodInterface /\ nEPs < 2 /\ Info.bulk
     THEN /\ epInfo' = [epInfo EXCEPT ![Info.dir] =
                          [addr |-> Info.addr, size |-> Least(Info.size, PacketMax)]]
          /\ nEPs' = nEPs + 1
     ELSE UNCHANGED <<epInfo, nEPs>>
  /\ UNCHANGED <<isGoodInterface, confValue>>

Configuration ==
  /\ DscrType = "configuration"
  /\ confValue' = Info
  /\ UNCHANGED <<epInfo, isGoodInterface, nEPs>>

Skipped == DscrType = "other" /\ UNCHANGED <<epInfo, isGoodInterface, nEPs, confValue>>

BodyDone ==
  /\ pc = "parse" /\ stateParseDescr = "body" /\ countDown = 0
  /\ Interface \/ Endpoint \/ Configuration \/ Skipped
  /\ stateParseDescr' = "header" /\ varBuffer' = <<>> /\ countDown' = 2
  /\ UNCHANGED <<device, attached, pc, search, stream>>

SearchNext ==
  \/ Attach \/ Detach \/ AskConfiguration \/ RequestFails \/ EndOfConfiguration
  \/ NoConfiguration \/ Deliver \/ Header \/ HeaderDone \/ Body \/ BodyDone

SearchSpec == SearchInit /\ [][SearchNext]_searchVars

-----------------------------------------------------------------------------
(* No descriptor is written past the parser's buffer.                      *)
SearchTypeOK ==
  /\ pc \in {"idle", "conf", "parse", "found", "rejected", "failed"}
  /\ {isMidiSearch, isGoodInterface, piece} \subseteq BOOLEAN
  /\ Len(varBuffer) <= VarBuffer
  /\ nEPs \in 0 .. 2 /\ bNumEP \in 1 .. 3
  /\ stateParseDescr \in {"header", "body"}

(* The endpoints of interface j in configuration c.                        *)
Interfaces(c) == {d \in DOMAIN c : c[d].type = "interface"}
Bulk(c, j) == {d \in DOMAIN c : /\ c[d].type = "endpoint" /\ c[d].info.bulk /\ d > j
                                /\ \A k \in Interfaces(c) : k <= j \/ k > d}
Midi(c)    == {j \in Interfaces(c) : c[j].info /\ Bulk(c, j) # {}}
Twins(c, j) == \E d, e \in Bulk(c, j) : d # e /\ c[d].info.dir = c[e].info.dir
Pairs(c)   == {j \in Midi(c) : Cardinality(Bulk(c, j)) = 2 /\ ~Twins(c, j)}

(* The search must come to interface j of configuration n: no MIDI         *)
(* interface stands before it that would do.                               *)
Awaited(n, j) ==
  /\ j \in Pairs(device[n])
  /\ \A m \in 1 .. n - 1 : Midi(device[m]) = {}
  /\ \A k \in Midi(device[n]) : k < j => Cardinality(Bulk(device[n], k)) = 1

(***************************************************************************)
(* A device with a MIDI interface that has an endpoint for each direction  *)
(* is found, with the two endpoints of its first such interface and the    *)
(* value of its configuration: wherever its descriptors are cut, whatever  *)
(* stands around them and whatever device was there before.                *)
(***************************************************************************)
MidiPairTaken ==
  pc \in {"found", "rejected"} =>
    \A n \in DOMAIN device : \A j \in DOMAIN device[n] :
      LET c == device[n] IN
        Awaited(n, j) => /\ pc = "found" /\ isMidiSearch /\ bConfNum = c[1].info
                         /\ \A d \in Bulk(c, j) : epInfo[c[d].info.dir].addr = c[d].info.addr
=============================================================================
