-------------------------------- MODULE MCBson --------------------------------
(* Small instance: two keys, two values and one document to embed; the entries of a
   device and of a simulator that tell the parsers' cases apart. *)
EXTENDS InfoDocument

K(n, l) == [arr |-> -1, name |-> n, len |-> l]
MCNames  == {K("a", 1), K("bb", 2)}
MCOwnKeys == {K("a", 1)}
MCValues == {[type |-> "BOOL", val |-> "true", len |-> 0],
             [type |-> "STR", val |-> "xy", len |-> 2]}
MCMaxTree == [plain |-> 3, command |-> 5, sim |-> 4]
MCSubDocs ==
    {[size |-> 8, nodes |-> <<[parent |-> 0, type |-> "NULL", key |-> K("a", 1), val |-> ""]>>,
      toks |-> [d \in {0, 4, 5, 7} |->
                  CASE d = 0 -> IntField(8) [] d = 4 -> TypeField("NULL")
                    [] d = 5 -> KeyField(K("a", 1)) [] d = 7 -> EndField]]}

(* The document with the given elements, in the order in which they are nested. *)
RECURSIVE Fill(_, _, _, _)
Fill(s, stack, nodes, i) ==
    IF Len(stack) > 1 /\ (i > Len(nodes) \/ nodes[i].parent # Top(stack))
      THEN Fill(IF currentDocIsArray(s) THEN endArray(s) ELSE endDocument(s), Pop(stack), nodes, i)
    ELSE IF i > Len(nodes) THEN finish(s)
    ELSE LET n == nodes[i]
             v == [type |-> n.type, val |-> n.val, len |-> 3]
             g == CASE n.type = "DOC" /\ currentDocIsArray(s) -> arrayBeginSubDoc(s)
                    [] n.type = "DOC"   -> docBeginSubDoc(s, n.key)
                    [] n.type = "ARRAY" -> docBeginSubArray(s, n.key)
                    [] currentDocIsArray(s) -> arrayAddElement(s, v)
                    [] OTHER -> docAddElement(s, n.key, v)
         IN  Fill(g, IF n.type \in {"DOC", "ARRAY"} THEN Append(stack, i) ELSE stack, nodes, i + 1)

DocOf(nodes) ==
    LET s == Fill(initializeVector(Default, 100, 0, 0), <<0>>, nodes, 1)
    IN  [size |-> s.offset, toks |-> s.mem, nodes |-> nodes]

N(p, t, k, x) == [parent |-> p, type |-> t, key |-> K(k, 4), val |-> x]

SectionEntry(k, nodes, f, m) ==
    [key |-> K(k, 6), type |-> "DOC", val |-> "", len |-> 0, sub |-> DocOf(nodes),
     nodes |-> nodes, field |-> f, means |-> m]
Entry(k, t, x, f, m) ==
    [key |-> K(k, 10), type |-> t, val |-> x, len |-> 3, sub |-> "", nodes |-> << >>,
     field |-> f, means |-> m]

MCMaxEntries == [device |-> 4, simdata |-> 5]

MCVariableRefs == [own |-> [dev |-> "none", id |-> ""], far |-> [dev |-> "9", id |-> "x"]]

MCDeviceEntries ==
    {Entry("logical_id", "I32", "5", "id", "5"),
     Entry("logical_id", "STR", "5", "none", ""),
     Entry("device_uid", "STR", "u", "uid", "u"),
     Entry("role", "STR", "hub", "role", "hub"),
     Entry("role", "STR", "alien", "role", "other"),
     Entry("usb_path", "STR", "hid", "usb", <<"hid", "0", "0">>),
     Entry("is_connected", "BOOL", "true", "connected", "true"),
     SectionEntry("control", <<N(0, "DOC", "c1", ""), N(1, "STR", "role", "paddle"),
                          N(0, "NULL", "name", ""), N(0, "DOC", "c2", ""),
                          N(4, "STR", "parent", "c1"), N(4, "STR", "name", "two")>>,
             "controls",
             <<[id |-> "c1", name |-> Unnamed, type |-> "paddle", parent |-> ""],
               [id |-> "c2", name |-> "two", type |-> "unknown", parent |-> "c1"]>>),
     SectionEntry("input", <<N(0, "DOC", "i1", ""), N(1, "STR", "variable", "own"),
                        N(1, "STR", "role", "steering"), N(1, "DOC", "type", ""),
                        N(4, "STR", "role", "brake"),
                        N(0, "DOC", "i2", ""), N(6, "STR", "variable", "far"),
                        N(6, "STR", "control", "c2")>>,
             "inputs",
             <<[id |-> "i1", control |-> "", type |-> "unknown", role |-> "steering",
                variable |-> [dev |-> "this", id |-> "own"]],
               [id |-> "i2", control |-> "c2", type |-> "unknown", role |-> "unknown",
                variable |-> [dev |-> "9", id |-> "x"]]>>),
     SectionEntry("feedback", <<N(0, "DOC", "f1", ""), N(1, "STR", "type", "rgb_light"),
                           N(1, "DOC", "parm", ""), N(3, "STR", "type", "light"),
                           N(1, "STR", "control", "c1")>>,
             "feedbacks",
             <<[id |-> "f1", control |-> "c1", type |-> "rgb_light", params |-> "parm"]>>),
     SectionEntry("hid_input", <<N(0, "ARRAY", "axis", ""), N(1, "DOC", "", ""),
                            N(2, "ARRAY", "range", ""), N(3, "I32", "", "lo"),
                            N(3, "I32", "", "hi"), N(2, "ARRAY", "mappings", ""),
                            N(6, "DOC", "", ""), N(7, "STR", "input", "i1"),
                            N(7, "I32", "device", "5"), N(2, "STR", "role", "throttle"),
                            N(0, "ARRAY", "buttons", ""), N(11, "DOC", "", ""),
                            N(12, "STR", "role", "horn")>>,
             "hid",
             [axis |-> <<[role |-> "throttle", range |-> <<"lo", "hi">>,
                          mappings |-> <<[input |-> "i1", dev |-> "5"]>>]>>,
              buttons |-> <<[role |-> "horn", mappings |-> << >>]>>]),
     SectionEntry("deep", <<N(0, "DOC", "a", ""), N(1, "DOC", "a", ""), N(2, "DOC", "a", ""),
                       N(3, "DOC", "a", ""), N(4, "DOC", "a", "")>>, "none", "")}

MCHexDigits == [a001 |-> Hex16(40961), ffff |-> Hex16(65535), zzzz |-> <<16, 16, 16, 16>>,
                abc |-> <<10, 11, 12>>]

MCSimEntries ==
    {SectionEntry("vehicles", <<N(0, "DOC", "v1", ""), N(0, "I32", "x", "1"), N(0, "DOC", "v2", "")>>,
             "vehicles", <<"v1", "v2">>),
     SectionEntry("vehicles", <<N(0, "DOC", "v3", ""), N(1, "DOC", "v4", "")>>, "vehicles", <<"v3">>),
     SectionEntry("tracks", <<N(0, "DOC", "t1", "")>>, "tracks", <<"t1">>),
     SectionEntry("participants", <<N(0, "DOC", "a001", ""), N(0, "DOC", "zzzz", ""),
                               N(0, "NULL", "ffff", ""), N(0, "DOC", "ffff", "")>>,
             "participants", <<40961, 65535>>),
     SectionEntry("tires", <<N(0, "DOC", "abc", ""), N(0, "DOC", "a001", "")>>, "tires", <<40961>>),
     SectionEntry("sessions",
             <<N(0, "DOC", "s1", ""), [N(1, "STR", "player_vehicle_id", "v2") EXCEPT !.key.len = 17],
               N(0, "DOC", "s2", ""), [N(3, "STR", "track_id", "t1") EXCEPT !.key.len = 8]>>,
             "sessions",
             <<[id |-> "s1", vehicle |-> "v2", track |-> ""],
               [id |-> "s2", vehicle |-> "", track |-> "t1"]>>),
     SectionEntry("sim", <<N(0, "STR", "name", "abc")>>, "sim", "sim"),
     Entry("active_session", "STR", "s1", "active", "s1"),
     Entry("active_session", "STR", "s2", "active", "s2"),
     Entry("active_sim", "STR", "simu", "active_sim", "simu")}
==============================================================================
