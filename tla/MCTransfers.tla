---------------------------- MODULE MCTransfers -----------------------------
(***************************************************************************)
(* Whatever moves data in blocks, one component at a time: the DMA         *)
(* engines and the devices behind them, the SPI buses with the memories,   *)
(* the display and the card on them, the file system, and the network      *)
(* and Bluetooth services.  Rings, queues and tables hold two or three     *)
(* entries, so that each is full and empty within a few steps.             *)
(***************************************************************************)
EXTENDS Integers

VARIABLES
    device,     \* which component is explored; it never changes
    dev         \* the state of that component

Dma == INSTANCE DmaDevices WITH
    Modes <- {"plain", "separator", "header"}, DescSize <- 2, UhciDescs <- 2,
    Threshold <- 2, MaxFrames <- 2, Lossy <- TRUE,
    I2sDescs <- 3, I2sBufSize <- 2, FifoSize <- 3, Cycles <- {1, 2}, MaxSamples <- 4,
    MaxAdvance <- 2,
    Channels <- {1}, GdmaDescs <- 2, GdmaBufSize <- 1, Watched <- {"eof"},
    SoundRing <- 2, SoundLens <- {1, 2}, SoundBytes <- 3,
    ChainMax <- 2, PanelDescs <- {2, 3}, CamSizes <- {2, 3}, CamLens <- {4, 5},
    AdcIndexMod <- 4, AdcLens <- {2}, AdcFrames <- {3}
Sd == INSTANCE SdCards WITH
    SdmmcSectors <- 2, RingSize <- 2, FifoWords <- 1, MaxBlocks <- 1,
    MaxCommands <- 1,
    LenMod <- 4, TokenMod <- 4, Lengths <- {1, 2}, MaxDescs <- 4,
    Watched <- {"rx_eof", "rx_err", "tx_done"},
    CardSectors <- 2, Values <- {"x", "y"}, Block <- 2, QueueSize <- 8, MaxMulti <- 2,
    Patience <- 2, Busy <- 1
Bus == INSTANCE BusControllers WITH
    FifoSize <- 2, Lists <- {"write", "begin", "finish", "read"}, MaxBytes <- 1,
    MaxRuns <- 2,
    FifoFrames <- 2, FifoBytes <- 3, Warning <- 1, Passive <- 2, BusOff <- 4,
    TwaiMaxFrames <- 2, TwaiWatched <- {"rx", "error", "overrun"},
    Ring <- 3, Filters <- {{}, {"receive_all", "da_inverse"}}, EmacMaxFrames <- 2,
    MaxMissed <- 1, EmacWatched <- {"rx", "tx", "rx_unavailable", "fatal"}
Spi == INSTANCE SpiBus WITH
    Parts <- {"dma", "select", "attach", "bang"}, Gens <- {"esp32", "s3"}, Descs <- 2,
    BufSize <- 1, MaxWanted <- 2, Slaves <- {"touch", "display"}, Slots <- 2,
    CsPins <- {1, 2, 3}, CmdBits <- 2, AnsBits <- 4,
    Columns <- 2, Pages <- 3, Corners <- {0, 1, 3}
Flash == INSTANCE SpiMem WITH
    Page <- 2, Sector <- 2, Half <- 4, Block <- 4, Size <- 8, Groups <- {0, 1},
    PsramSize <- 16, Row <- 8, Profiles <- {"gd25q32c", "other"},
    Layouts <- {"esp32", "s3"}, Psrams <- {"none", "ap", "quad"}, MaxCells <- 1
Radio == INSTANCE RadioStubs WITH
    Fds <- 2, PollUs <- 1, MaxMsgs <- 2, Kinds <- {"tcp"},
    Clients <- {"c1"}, ClientMax <- 1, MaxPending <- 2, RxSlots <- 1, MaxFrames <- 2,
    Modes <- {"apsta"},
    QueueSize <- 1, PoolSize <- 1, MaxPacket <- 2, Patience <- 2, MaxPackets <- 2,
    Faults <- {"junk", "overlong", "close", "send", "late"},
    Parts <- {"link", "quiet", "acl", "virtual"}
FileSystem == INSTANCE Vfs WITH
    Prefixes <- {"spiffs", "sd", "fat"}, Files <- {"spiffs", "sd"}, Mounts <- 2,
    Fds <- 2, Flags <- {"r", "w", "a", "rw"}, MaxWrites <- 2, MaxOpens <- 3

ASSUME
    /\ Dma!UhciAssumption
    /\ Sd!SdmmcAssumption
    /\ Bus!I2cAssumption
    /\ Bus!TwaiAssumption
    /\ Sd!SdioSlaveAssumption
    /\ Bus!EmacAssumption
    /\ Dma!I2sAssumption
    /\ Dma!GdmaAssumption
    /\ Dma!SoundAssumption
    /\ Dma!CamAssumption
    /\ Dma!AdcAssumption
    /\ Radio!WifiSocketsAssumption
    /\ Radio!WifiStationAssumption
    /\ Radio!BtAssumption
    /\ FileSystem!VfsAssumption

vars == <<device, dev>>

Init ==
    \/ device = "uhci" /\ Dma!UhciInit
    \/ device = "sdmmc" /\ Sd!SdmmcInit
    \/ device = "i2c" /\ Bus!I2cInit
    \/ device = "twai" /\ Bus!TwaiInit
    \/ device = "sdio" /\ Sd!SdioInit
    \/ device = "emac" /\ Bus!EmacInit
    \/ device = "i2s" /\ Dma!I2sInit
    \/ device = "gdma" /\ Dma!GdmaInit
    \/ device = "sound" /\ Dma!SoundInit
    \/ device = "camera" /\ Dma!CamInit
    \/ device = "adc" /\ Dma!AdcInit
    \/ device = "spi" /\ Spi!SpiInit
    \/ device = "flash" /\ Flash!Init
    \/ device = "card" /\ Sd!CardInit
    \/ device = "display" /\ Spi!LcdInit
    \/ device = "sockets" /\ Radio!SockInit
    \/ device = "station" /\ Radio!StaInit
    \/ device = "bt" /\ Radio!BtInit
    \/ device = "files" /\ FileSystem!Init

Next ==
    /\ UNCHANGED device
    /\ \/ device = "uhci" /\ Dma!UhciNext
       \/ device = "sdmmc" /\ Sd!SdmmcNext
       \/ device = "i2c" /\ Bus!I2cNext
       \/ device = "twai" /\ Bus!TwaiNext
       \/ device = "sdio" /\ Sd!SdioNext
       \/ device = "emac" /\ Bus!EmacNext
       \/ device = "i2s" /\ Dma!I2sNext
       \/ device = "gdma" /\ Dma!GdmaNext
       \/ device = "sound" /\ Dma!SoundNextStep
       \/ device = "camera" /\ Dma!CamNext
       \/ device = "adc" /\ Dma!AdcNext
       \/ device = "spi" /\ Spi!SpiNext
       \/ device = "flash" /\ Flash!Next
       \/ device = "card" /\ Sd!CardNext
       \/ device = "display" /\ Spi!LcdNext
       \/ device = "sockets" /\ Radio!SockNext
       \/ device = "station" /\ Radio!StaNext
       \/ device = "bt" /\ Radio!BtNext
       \/ device = "files" /\ FileSystem!Next

Spec == Init /\ [][Next]_vars

-----------------------------------------------------------------------------
\* In every state a device has been brought to, the level on its interrupt line is the
\* one its raw and enable bits call for, over clears that race new events, gated clocks
\* and resets in the middle of a transfer (the *_update_irq functions).
LinesExact ==
    /\ device = "uhci" => Dma!UhciIrqExact
    /\ device = "sdmmc" => Sd!SdmmcIrqExact
    /\ device = "i2c" => Bus!LevelsExact
    /\ device = "twai" => Bus!TwaiIrqExact /\ Bus!ReceiveLevel
    /\ device = "sdio" => Sd!SdioIrqExact
    /\ device = "emac" => Bus!EmacIrqExact
    /\ device = "i2s" => Dma!I2sIrqExact
    /\ device = "gdma" => Dma!GdmaIrqExact
    /\ device = "sound" => Dma!SoundIrqExact
    /\ device = "camera" => Dma!CamIrqExact
    /\ device = "spi" => Spi!IrqExact

\* What arrives is what was sent, once and in order, and where it belongs: frames over a
\* ring that wraps or runs dry, bytes over a queue that overflows, sectors, flash pages
\* and PSRAM bursts at the ends of their address range, pixels of a window, streams and
\* datagrams whose host call fails half way, files closed with data in the buffer (but for
\* a file a failed opening has already truncated), and the events that tell the guest who
\* is connected.  Of the Bluetooth link it promises less, because the code does: no packet
\* is lost unaccounted, and the order is kept as long as the guest refuses none; a packet
\* whose guest call timed out after the host took it is given a second time, once per such
\* call (bt_hci_pump, bt_hci_deliver; DeliveredInOrder and GivenOnce do not hold).
DataIntact ==
    /\ device = "uhci" => Dma!FramesIntact /\ Dma!BytesConserved
    /\ device = "sdmmc" => Sd!ReadInOrder
    /\ device = "i2c" => Bus!DeliveredInOrder /\ Bus!HeldConsistent
    /\ device = "twai" => Bus!FramesInOrder /\ Bus!EndToldOnce
    /\ device = "sdio" => Sd!PacketsIntact /\ Sd!LengthMatchesList
    /\ device = "emac" => Bus!FramesIntact
    /\ device = "i2s" => Dma!SamplesInOrder
    /\ device = "gdma" => Dma!OnceEach
    /\ device = "sound" => Dma!SoundTrue
    /\ device = "camera" => Dma!PanelWhole /\ Dma!CamWhole
    /\ device = "adc" => Dma!AdcInOrder
    /\ device = "spi" => Spi!AnswerAligned
    /\ device = "flash" =>
         /\ Flash!ChangesNoted /\ Flash!OnePerEnable /\ Flash!BurstExact
         /\ Flash!ProtectionRetained
    /\ device = "card" => Sd!ReadsTrue /\ Sd!WritesLand
    /\ device = "display" => Spi!RowMajor /\ Spi!EveryCellShown
    /\ device = "sockets" => Radio!StreamExact /\ Radio!DatagramsSeen
    /\ device = "station" =>
         /\ Radio!PayloadStable /\ Radio!FramesWhole /\ Radio!ViewCurrent
    /\ device = "bt" => Radio!NothingLost /\ Radio!OrderKept /\ Radio!AnswersOwn
    /\ device = "files" => FileSystem!WritesLand

\* A transfer that has begun has an event ahead of it, waits for the guest, or has said that
\* it is over: after a stalled or starved DMA, a full FIFO, a bus error and its recovery,
\* a poll demand, a lost arbitration, an aborted command.
NothingStalls ==
    /\ device = "uhci" => Dma!TransmitAlive
    /\ device = "sdmmc" => Sd!TransferAlive
    /\ device = "twai" => Bus!TransmitAlive /\ Bus!RecoveryAlive
    /\ device = "sdio" => Sd!NothingStranded /\ Sd!TokensCovered
    /\ device = "emac" => Bus!PollComplete /\ Bus!OwnedFromCurrent
    /\ device = "i2s" => Dma!StreamAlive
    /\ device = "sound" => Dma!SoundAlive
    /\ device = "card" => Sd!Answered

\* No step touches what belongs to somebody else: a DMA engine only the descriptors it
\* owns (and a completed one is given back once), a failed or partial transfer no part of
\* a sector, a write no protected block, a poll no scratch page in use; and what does not
\* fit into a FIFO is reported, never dropped in silence.
StepsLegalStep ==
    /\ device = "sdmmc" => Sd!WriteStep /\ Sd!RingStep
    /\ device = "i2c" => Bus!OverflowStep
    /\ device = "emac" => Bus!DmaStep
    /\ device = "gdma" => Dma!OwnerStep
    /\ device = "spi" => Spi!TransferStep /\ Spi!OwnerStep
    /\ device = "flash" => Flash!ProtectStep
    /\ device = "station" => Radio!ScratchStep
StepsLegal == [][StepsLegalStep]_vars

\* Everything that was taken is in exactly one hand: host sockets, host files, descriptors
\* and streams, buffers of the Bluetooth pool, DMA descriptors of the UART, chip selects and
\* device slots of an SPI bus.  Over any sequence of failures, closes and restarts the
\* account balances, and the only entries on its debit side are the code's own: the socket
\* of a plain connection that could not be made again (start_ssl_client), the FILE slot of a
\* failed fopen, the event buffer of a guest call that failed, and, twice in hand, that of a
\* guest call that timed out after the host took it.
HandlesOwned ==
    /\ device = "uhci" => Dma!UhciOwnershipKept
    /\ device = "spi" => Spi!NotStolen /\ Spi!TableMatchesBoard
    /\ device = "sockets" => Radio!HandlesOwned
    /\ device = "bt" => Radio!PoolAccounted
    /\ device = "files" => FileSystem!HandlesOwned

\* The type invariants of the components.
TypeOK ==
    /\ device = "uhci" => Dma!UhciTypeOK
    /\ device = "sdmmc" => Sd!SdmmcTypeOK
    /\ device = "i2c" => Bus!I2cTypeOK
    /\ device = "twai" => Bus!TwaiTypeOK
    /\ device = "sdio" => Sd!SdioTypeOK
    /\ device = "emac" => Bus!EmacTypeOK
    /\ device = "i2s" => Dma!I2sTypeOK
    /\ device = "gdma" => Dma!GdmaTypeOK
    /\ device = "sound" => Dma!SoundTypeOK
    /\ device = "camera" => Dma!CamTypeOK
    /\ device = "adc" => Dma!AdcTypeOK
    /\ device = "spi" => Spi!SpiTypeOK
    /\ device = "flash" => Flash!TypeOK
    /\ device = "card" => Sd!CardTypeOK
    /\ device = "display" => Spi!LcdTypeOK
    /\ device = "sockets" => Radio!SockTypeOK
    /\ device = "station" => Radio!StaTypeOK
    /\ device = "bt" => Radio!BtTypeOK
    /\ device = "files" => FileSystem!TypeOK
=============================================================================
