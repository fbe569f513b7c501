-------------------------- MODULE MCEndpointSearch --------------------------
(* Devices for EndpointSearch: up to two configurations of up to two       *)
(* interfaces, with class-specific descriptors among the endpoints, an     *)
(* endpoint descriptor with more bytes and an empty descriptor.            *)
EXTENDS EndpointSearch

Make(t, n, x) == [type |-> t, len |-> n, info |-> x]
Ep(bulk, dir, addr, n) ==
  Make("endpoint", n, [bulk |-> bulk, dir |-> dir, addr |-> addr, size |-> addr])
Value(v)  == <<Make("configuration", 4, v)>>
Iface(m)  == <<Make("interface", 3, m)>>
Other(n)  == <<Make("other", n, FALSE)>>

(* Endpoints numbered from a.                                              *)
Groups(a) ==
  { <<>>,
    <<Ep(TRUE, "in", a, 4)>> \o Other(4),
    <<Ep(TRUE, "out", a, 3)>>,
    <<Ep(FALSE, "in", a + 1, 3), Ep(TRUE, "out", a, 3), Ep(TRUE, "in", a + 2, 3)>>,
    Other(2) \o <<Ep(TRUE, "in", a, 4)>> \o Other(3) \o <<Ep(TRUE, "out", a + 1, 4)>> }

Interfaces2 == {Iface(m) \o g \o Iface(n) \o h : m \in BOOLEAN, g \in Groups(1),
                                                 n \in BOOLEAN, h \in Groups(4)}
OneConf == {<<Value(1) \o x>> : x \in Interfaces2}
TwoConf == {<<Value(1) \o Iface(m) \o g, Value(2) \o Iface(n) \o h>> :
              m \in BOOLEAN, g \in Groups(1), n \in BOOLEAN, h \in Groups(4)}
MCDevices == OneConf \cup TwoConf
=============================================================================
