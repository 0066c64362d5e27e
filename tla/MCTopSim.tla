------------------------------ MODULE MCTopSim ------------------------------
EXTENDS TopSim

Loads(d, bs) == {[acctype |-> Fetch, dev |-> d, byteenable |-> be] : be \in bs}

Stores(d, words) ==
  {[acctype |-> Store, dev |-> d, byteenable |-> DOMAIN w, data |-> w] : w \in words}

MCRequests ==
  Loads("ram", {{"b0"}, {"b0", "b1"}})
  \cup Stores("ram", {[b0 |-> "one"], [b0 |-> "zero", b1 |-> "one"]})
  \cup Loads("rom", {{"b1"}}) \cup Stores("rom", {[b1 |-> "one"]})
  \cup Loads("uart", {{"data"}, {"control"}})
  \cup Stores("uart", {[data |-> "one"],
                          [data |-> "one", control |-> {"RE", "WE"}]})
  \cup Loads("sdcard", {{"asr", "rr1", "buf"}})
  \cup Stores("sdcard", {[buf |-> "one"]}
                        \cup {[arg |-> a, cmd |-> "READ_BLOCK"] : a \in {0, 1}}
                        \cup {[arg |-> a, cmd |-> "WRITE_BLOCK"] : a \in {0, 2, 4}}
                        \cup {[cmd |-> "SEND_RCA"]})
  \cup Loads(Unmapped, {{}})

File(devs, type, irq, readonly, n) ==
  [devices |-> devs, uart |-> type, irq |-> irq, readonly |-> readonly,
   outstanding |-> n, sessions |-> 0]

MCConfigs ==
  {File({"ram", "rom"}, "null", FALSE, FALSE, 3),
   File({"sdcard"}, "null", FALSE, TRUE, 1),
   File({"sdcard"}, "null", FALSE, FALSE, 1),
   File({"uart"}, "socket", TRUE, FALSE, 1),
   File({"uart"}, "stdio", TRUE, FALSE, 1),
   File({"uart"}, "file", FALSE, FALSE, 1),
   File({"uart"}, "null", TRUE, FALSE, 1),
   [File({}, "null", FALSE, FALSE, 0) EXCEPT !.sessions = 2]}
=============================================================================
