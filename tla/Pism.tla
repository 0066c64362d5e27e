-------------------------------- MODULE Pism --------------------------------
(***************************************************************************)
(* PISM, the bus of simulated peripherals (peripherals/pismdev/pism.c),    *)
(* with three of its devices: dram.c, uart.c and sdcard.c.  A device       *)
(* occupies addresses; here an address is a device and one of its lanes    *)
(* (a byte of memory, a register, a whole buffer), and a request names the *)
(* lanes of one line whose bytes are enabled.                              *)
(***************************************************************************)
EXTENDS Naturals, Sequences

CONSTANTS
  Drams,            \* the devices of module dram
  ReadOnly,         \* the devices configured with perms "f"
  Lanes,            \* the bytes of a line of memory
  Bytes,            \* their values
  Zero,             \* the value memory and buffers start with
  Blocks,           \* the number of blocks of sdp_length
  ArgRange,         \* 2^32, the range of cmd_arg, in units of half a sector
  Words,            \* what a block of the card can hold
  Delay,            \* dp_delay and sdp_delay, in cycles
  PISM_FIFO_DEPTH,
  Configs,          \* the configuration files: see config below
  Requests          \* what the processor may ask for

Fetch == "fetch"
Store == "store"
NoByte == <<>>              \* the data register with RVALID clear
Partial == "partial"        \* a block or buffer made of parts of two words

SECTORSIZE == 2             \* in half sectors

Timed == Drams \cup {"sdcard"}      \* devices that delay their replies
Devices == Timed \cup {"uart"}

LanesOf(d) == CASE d \in Drams   -> Lanes
                [] d = "uart"    -> {"data", "control"}
                [] d = "sdcard"  -> {"arg", "cmd", "asr", "rr1", "buf"}

(* A device that no configuration has stands for every request that is     *)
(* refused before it reaches a device: an unmapped address, a burst.       *)
Unmapped == "unmapped"

ASSUME PismAssumption ==
  /\ "uart" \notin Drams /\ "sdcard" \notin Drams /\ Unmapped \notin Drams
  /\ Zero \in Bytes /\ Zero \in Words /\ Delay \in Nat
  /\ PISM_FIFO_DEPTH \in Nat /\ PISM_FIFO_DEPTH > 1
  /\ Blocks \in Nat /\ ArgRange \in Nat \ {0} /\ Blocks * SECTORSIZE <= ArgRange
  /\ ArgRange % SECTORSIZE = 0
  /\ \A r \in Requests :
       /\ r.acctype \in {Fetch, Store} /\ r.dev \in Devices \cup {Unmapped}
       /\ r.dev \in Devices => r.byteenable \subseteq LanesOf(r.dev)
       /\ (r.dev \in Drams /\ r.acctype = Store) =>
            r.data \in [r.byteenable -> Bytes]
       /\ (r.dev = "sdcard" /\ r.acctype = Store) =>
            /\ "arg" \in r.byteenable => r.data["arg"] \in 0 .. ArgRange - 1
            /\ "buf" \in r.byteenable => r.data["buf"] \in Words
  /\ \A c \in Configs : c.devices \subseteq Devices

VARIABLES
  config,           \* the devices, the type and irq of the UART, the option
                    \* readonly of the card, and the requests kept in flight
  pism_initialized,
  pism_fifo,        \* the devices with a fetch to answer, in request order
  reqfifo,          \* dp_reqfifo, up_reqfifo, sdp_reqfifo: at most one fetch
  wait,             \* cycles until replycycle, 0 once it is reached
  data,             \* dp_data and sdp_data
  image,            \* the card's image file: its blocks, and its size in
                    \* units of half a sector
  uart              \* up_control, the descriptors and the other end's state

pismVars == <<config, pism_initialized, pism_fifo, reqfifo, wait, data, image,
              uart>>

-----------------------------------------------------------------------------
(***************************************************************************)
(* uart.c.  A line is one connection: what was typed and not yet read, how *)
(* many bytes were typed, and whether the other end is still there.  Byte  *)
(* <<c, n>> is the n-th of connection c.                                   *)
(***************************************************************************)
NewLine(c) == [conn |-> c, wire |-> <<>>, typed |-> 0, open |-> TRUE]

PERSISTENT == {"RE", "WE", "AC"}

(* poll(2) reports POLLIN for a byte, and for the end of the input. *)
POLLIN(u) == u.fdinput /\ (u.line.wire # <<>> \/ ~u.line.open)

uart_dev_listensock_poll(u) ==
  IF u.type = "socket" /\ ~u.fdinput /\ u.caller # <<>>
  THEN [u EXCEPT !.fdinput = TRUE, !.fdoutput = TRUE,
                 !.line = Head(u.caller), !.caller = <<>>]
  ELSE u

uart_dev_socket_cleanup(u) == [u EXCEPT !.fdinput = FALSE, !.fdoutput = FALSE]

(* The byte uart_dev_fetch finds, and the UART it leaves behind: the end   *)
(* of a socket's input closes it, that of a file does not.                 *)
uart_dev_fetch_byte(u) ==
  LET v == uart_dev_listensock_poll(u)
  IN  IF v.fdinput /\ v.line.wire # <<>> THEN Head(v.line.wire) ELSE NoByte

uart_dev_fetch(u) ==
  LET v == uart_dev_listensock_poll(u)
  IN  CASE ~POLLIN(v) -> v
        [] POLLIN(v) /\ v.line.wire # <<>> -> [v EXCEPT !.line.wire = Tail(@)]
        [] OTHER -> IF v.type = "socket" THEN uart_dev_socket_cleanup(v) ELSE v

uart_dev_control_update(u) ==
  LET v  == IF "RE" \in u.control THEN uart_dev_listensock_poll(u) ELSE u
      AC == IF u.fdoutput \/ u.type = "null" THEN {"AC"} ELSE {}
      RI == IF "RE" \in u.control /\ POLLIN(v) THEN {"RI"} ELSE {}
      WI == IF "WE" \in u.control THEN {"WI"} ELSE {}
  IN  [v EXCEPT !.control = (u.control \cap {"RE", "WE"}) \cup AC \cup RI \cup WI]

(* A byte to a socket is lost without a connection, and closes the         *)
(* connection when its other end is gone, with all that is still unread.   *)
uart_dev_put(u) ==
  LET v == uart_dev_listensock_poll(u)
  IN  IF u.type = "socket" /\ v.fdoutput /\ ~v.line.open
      THEN uart_dev_socket_cleanup(v) ELSE v

uart_dev_store(u, req) ==
  LET v == IF "data" \in req.byteenable THEN uart_dev_put(u) ELSE u
  IN  IF "control" \in req.byteenable
      THEN [v EXCEPT !.control = (@ \ PERSISTENT)
                                 \cup (req.data["control"] \cap PERSISTENT)]
      ELSE v

(* Mutant: the whole line is processed, whatever lanes are asked for.      *)
uart_fetchedWhole(u, req) == uart_dev_control_update(uart_dev_fetch(u))

(* The UART and the words it answers a fetch with: only a lane that is     *)
(* asked for is touched, the data word before the control word.            *)
uart_fetched(u, req) ==
  LET v == IF "data" \in req.byteenable THEN uart_dev_fetch(u) ELSE u
  IN  IF "control" \in req.byteenable THEN uart_dev_control_update(v) ELSE v

uart_answer(u, req) ==
  [l \in req.byteenable |->
     IF l = "data" THEN uart_dev_fetch_byte(u)
     ELSE uart_fetched(u, req).control \cup {"WSPACE"}]

-----------------------------------------------------------------------------
(***************************************************************************)
(* sdcard.c.  The status register is the set of VALID and DATAERROR; a     *)
(* command argument is a byte offset, in units of half a sector.           *)
(***************************************************************************)
Enabled(old, req) ==
  [l \in DOMAIN old |-> IF l \in req.byteenable THEN req.data[l] ELSE old[l]]

Refused(sd, err, rr1) == [sd EXCEPT !["asr"] = (@ \ {"VALID"}) \cup err, !["rr1"] = rr1]

Misaligned(sd) == sd["arg"] % SECTORSIZE # 0

(* The sum has the 32 bits of cmd_arg, so the last offsets wrap to 0. *)
OutOfRange(sd) == (sd["arg"] + SECTORSIZE) % ArgRange > Blocks * SECTORSIZE

BadArgument(sd) == Misaligned(sd) \/ OutOfRange(sd)

BlockOf(sd) == sd["arg"] \div SECTORSIZE

Argument(sd) ==
  Refused(sd, {"DATAERROR"}, IF Misaligned(sd) THEN "misaligned" ELSE "range")

(* The file may end within a block, of which only a part can be read; what *)
(* lies beyond the end is zero if the file grows past it.                  *)
InFile(img, b) == (b + 1) * SECTORSIZE <= img.size

(* What a transfer of a part of a block leaves of old, where new was meant. *)
Mixed(old, new) == IF old = new THEN old ELSE Partial

Put(img, b, w, end) ==
  [block |-> [img.block EXCEPT ![b] = w],
   size  |-> IF img.size < end THEN end ELSE img.size]

Written(img, b, w) == Put(img, b, w, (b + 1) * SECTORSIZE)

WrittenShort(img, b, w) == Put(img, b, Mixed(img.block[b], w), b * SECTORSIZE + 1)

Failed(sd) == [sd EXCEPT !["asr"] = @ \cup {"DATAERROR"}]

Done(sd, asr) == [sd EXCEPT !["asr"] = asr, !["rr1"] = "ok"]

(* What the card's registers may be after a READ_BLOCK: a short or failed  *)
(* read only adds DATAERROR and may have overwritten part of the buffer.   *)
sdcard_cmd_read(sd, img) ==
  LET w == img.block[BlockOf(sd)]
  IN  IF BadArgument(sd) THEN {Argument(sd)}
      ELSE {[Failed(sd) EXCEPT !["buf"] = b] : b \in {sd["buf"], Mixed(sd["buf"], w)}}
           \cup (IF InFile(img, BlockOf(sd))
                 THEN {[Done(sd, {"VALID"}) EXCEPT !["buf"] = w]} ELSE {})

(* Mutant: a write that came up short is taken for a complete one. *)
sdcard_cmd_writeUnchecked(sd, img) ==
  LET done == Done(sd, {"VALID", "DATAERROR"})
  IN  IF BadArgument(sd) THEN {<<Argument(sd), img>>}
      ELSE {<<Failed(sd), img>>}
           \cup (IF config.readonly THEN {}
                 ELSE {<<done, WrittenShort(img, BlockOf(sd), sd["buf"])>>,
                       <<done, Written(img, BlockOf(sd), sd["buf"])>>})

(* The registers and the image after a WRITE_BLOCK; a successful one       *)
(* really sets DATAERROR too.  One that fails or comes up short, the block *)
(* then changed in part, only adds DATAERROR.  sdp_readonly is never set:  *)
(* with the option readonly it is pwrite that fails.                       *)
sdcard_cmd_write(sd, img) ==
  IF BadArgument(sd) THEN {<<Argument(sd), img>>}
  ELSE {<<Failed(sd), img>>}
       \cup (IF config.readonly THEN {}
             ELSE {<<Failed(sd), WrittenShort(img, BlockOf(sd), sd["buf"])>>,
                   <<Done(sd, {"VALID", "DATAERROR"}),
                     Written(img, BlockOf(sd), sd["buf"])>>})

sdcard_cmd_handle(sd, img, req) ==
  CASE "cmd" \notin req.byteenable -> {<<sd, img>>}
    [] "cmd" \in req.byteenable /\ sd["cmd"] = "READ_BLOCK" ->
         {<<s, img>> : s \in sdcard_cmd_read(sd, img)}
    [] "cmd" \in req.byteenable /\ sd["cmd"] = "WRITE_BLOCK" ->
         sdcard_cmd_write(sd, img)
    [] OTHER -> {<<Refused(sd, {}, "illegal"), img>>}

-----------------------------------------------------------------------------
(* pism.c *)
pism_addr_valid(req) ==
  /\ pism_initialized
  /\ req.dev \in config.devices
  /\ req.acctype = Store => req.dev \notin ReadOnly

pism_request_ready(req) ==
  /\ pism_initialized
  /\ req.acctype = Fetch => reqfifo[req.dev] = <<>>

DeviceStore(req) ==
  CASE req.dev \in Drams ->
         /\ data' = [data EXCEPT ![req.dev] = Enabled(@, req)]
         /\ UNCHANGED <<image, uart>>
    [] req.dev = "uart" ->
         /\ uart' = uart_dev_store(uart, req)
         /\ UNCHANGED <<data, image>>
    [] req.dev = "sdcard" ->
         /\ \E o \in sdcard_cmd_handle(Enabled(data["sdcard"], req), image, req) :
              data' = [data EXCEPT !["sdcard"] = o[1]] /\ image' = o[2]
         /\ UNCHANGED uart

pism_request_put(req) ==
  /\ IF req.acctype = Store
     THEN DeviceStore(req) /\ UNCHANGED <<reqfifo, wait, pism_fifo>>
     ELSE /\ reqfifo' = [reqfifo EXCEPT ![req.dev] = <<req>>]
          /\ wait' = [d \in Timed |-> IF d = req.dev THEN Delay ELSE wait[d]]
          /\ pism_fifo' = Append(pism_fifo, req.dev)
          /\ UNCHANGED <<data, image, uart>>
  /\ UNCHANGED <<config, pism_initialized>>

pism_response_ready ==
  /\ pism_initialized
  /\ pism_fifo # <<>>
  /\ reqfifo[Head(pism_fifo)] # <<>>
  /\ Head(pism_fifo) \in Timed => wait[Head(pism_fifo)] = 0

(* The answer of the device at the head, with the bytes that were asked for. *)
Answer ==
  LET d == Head(pism_fifo)
      req == Head(reqfifo[d])
  IN  IF d = "uart" THEN uart_answer(uart, req)
      ELSE [l \in req.byteenable |-> data[d][l]]

(* Mutant: pism_response_get peeks where it should dequeue. *)
DequeuedNot == pism_fifo

Dequeued == Tail(pism_fifo)

pism_response_get ==
  /\ pism_fifo' = Dequeued
  /\ reqfifo' = [reqfifo EXCEPT ![Head(pism_fifo)] = <<>>]
  /\ uart' = IF Head(pism_fifo) = "uart"
             THEN uart_fetched(uart, Head(reqfifo["uart"])) ELSE uart
  /\ UNCHANGED <<config, pism_initialized, wait, data, image>>

pism_cycle_tick ==
  /\ wait' = [d \in Timed |-> IF wait[d] = 0 THEN 0 ELSE wait[d] - 1]
  /\ UNCHANGED <<config, pism_initialized, pism_fifo, reqfifo, data, image, uart>>

(* Asking the devices for interrupts lets the UART poll its descriptors. *)
pism_interrupt_get ==
  /\ pism_initialized /\ "uart" \in config.devices /\ config.irq
  /\ uart' = uart_dev_control_update(uart)
  /\ UNCHANGED <<config, pism_initialized, pism_fifo, reqfifo, wait, data, image>>

pism_init ==
  /\ ~pism_initialized
  /\ pism_initialized' = TRUE
  /\ UNCHANGED <<config, pism_fifo, reqfifo, wait, data, image, uart>>

PismInit ==
  /\ config \in Configs
  /\ pism_initialized = FALSE
  /\ pism_fifo = <<>>
  /\ reqfifo = [d \in Devices |-> <<>>]
  /\ wait = [d \in Timed |-> 0]
  /\ data = [d \in Timed |->
       IF d \in Drams THEN [l \in Lanes |-> Zero]
       ELSE [arg |-> 0, cmd |-> "none", asr |-> {}, rr1 |-> "ok", buf |-> Zero]]
  /\ image \in [block : {[b \in 0 .. ArgRange \div SECTORSIZE - 1 |-> Zero]},
                size  : IF "sdcard" \in config.devices
                        THEN 1 .. Blocks * SECTORSIZE ELSE {0}]
  /\ uart = [type |-> config.uart, control |-> {},
             fdinput |-> config.uart = "stdio",
             fdoutput |-> config.uart \in {"stdio", "file"},
             caller |-> <<>>, line |-> NewLine(0), conns |-> 0]
=============================================================================
