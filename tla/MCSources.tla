----------------------------- MODULE MCSources -----------------------------
(* Small plants: what a definition may get right and wrong, and layouts that *)
(* meet every bound of the plan.                                            *)
EXTENDS Sources

Reg(name, fn, start, typ) == [name |-> name, fn |-> fn, start |-> start, typ |-> typ, column |-> "none"]
Col(name, column) == [name |-> name, fn |-> "none", start |-> 0, typ |-> "none", column |-> column]
Asset(id, cell, source_, tags) == [id |-> id, cell |-> cell, source |-> source_, tags |-> tags]
PLC(assets) == [sources |-> <<[name |-> "plc", type |-> "modbus"]>>, assets |-> assets]
CSV(assets) == [sources |-> <<[name |-> "csv", type |-> "csv"]>>, assets |-> assets]

DeviceSignals ==
    << [fn |-> "holding", start |-> 0, typ |-> "float32", raw |-> FALSE],
       [fn |-> "holding", start |-> 2, typ |-> "int32", raw |-> FALSE],
       [fn |-> "holding", start |-> 4, typ |-> "uint16", raw |-> TRUE],
       [fn |-> "input", start |-> 0, typ |-> "int16", raw |-> FALSE],
       [fn |-> "input", start |-> 1, typ |-> "uint16", raw |-> FALSE] >>

DeviceSnapshots == << <<9, -3, 7, -66, 5>>, <<4095, 9999, 200, 63, -2>>, <<640, NotNumber, 77, -1, 126>> >>

Layouts ==
    { << Reg("speed", "", 0, "float32"), Reg("count", "holding", 2, "int32") >>,            \* over the limit of a request
      << Reg("state", "holding", 4, "uint16"), Reg("speed", "holding", 0, "float32"),
         Reg("ambient", "input", 0, "int16") >>,                                          \* two tables
      << Reg("low", "holding", 0, "uint16"), Reg("high", "holding", 2, "uint16") >>,        \* a gap that is bridged
      << Reg("low", "input", 0, "int16"), Reg("same", "input", 0, "int16"),
         Reg("high", "input", 1, "uint16") >>,                                            \* one address twice
      << Reg("low", "holding", 0, "int16"), Reg("state", "holding", 4, "uint16") >>,        \* a gap too wide
      << Reg("last", "holding", 6, "uint32") >>,                                          \* the end of the address space
      << Reg("beyond", "holding", 7, "uint32") >>,                                        \* behind it
      << Reg("odd", "coils", 0, "uint16") >>,                                             \* an unknown function
      << Reg("a", "holding", 0, "uint16"), Reg("b", "holding", 1, "uint16"),
         Reg("c", "holding", 2, "int32") >> }

SmallPlants ==
    {PLC(<<Asset("filler", "c1", "plc", l)>>) : l \in Layouts}
    \cup
    { CSV(<<Asset("filler", "c1", "csv", <<Col("speed", "v"), Col("temp", "")>>)>>),
      CSV(<<Asset("filler", "c1", "csv", <<Col("speed", "none")>>)>>),                    \* no csv block
      PLC(<<Asset("filler", "c1", "csv", <<Reg("speed", "", 0, "uint16")>>)>>),            \* an unknown source
      PLC(<<Asset("filler", "c1", "plc", <<Reg("speed", "", 0, "uint16")>>),
            Asset("capper", "c1", "plc", <<Reg("speed", "", 1, "uint16")>>)>>),            \* one topic twice
      PLC(<<Asset("filler", "c1", "plc", <<Reg("speed", "", 0, "uint16")>>),
            Asset("filler", "c2", "plc", <<Reg("temp", "", 1, "uint16")>>)>>),             \* one asset twice
      PLC(<<Asset("filler", "c1", "plc", <<Reg("speed", "", 0, "uint16")>>),
            Asset("capper", "c2", "plc", <<Reg("speed", "", 1, "uint16")>>)>>) }           \* one name in two cells

r1 == [v |-> 1, temp |-> 2, timestamp |-> Text]
r2 == [v |-> 3, temp |-> 4, timestamp |-> Text]
rText == [v |-> Text, temp |-> 2, timestamp |-> Text]
Full == {"timestamp", "v", "temp"}
SmallFiles ==
    { [header |-> Full, rows |-> <<r1, rText, r2>>], [header |-> Full, rows |-> <<BadRow, r2>>],
      [header |-> Full, rows |-> << >>], [header |-> {"timestamp", "v"}, rows |-> << >>] }
=============================================================================
