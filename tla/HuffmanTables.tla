---------------------------- MODULE HuffmanTables ----------------------------
(***************************************************************************)
(* The two tables of src/hpack/huffman_data.cc.  huff_sym_table has a code *)
(* for every octet and for the end of the string: its number of bits and   *)
(* the code as a number (the source keeps it shifted to the top of 32      *)
(* bits).  huff_decode_table is the automaton that reads a half octet at a *)
(* time: for every state and half octet the next state, plus 16384 when a  *)
(* string may end there and 32768 when a symbol is complete, and that      *)
(* symbol.  The rows are kept seven states to a page.                      *)
(***************************************************************************)
EXTENDS Integers, Sequences

huff_sym_table == <<
  <<13,8184>>, <<23,8388568>>, <<28,268435426>>, <<28,268435427>>, <<28,268435428>>,
  <<28,268435429>>, <<28,268435430>>, <<28,268435431>>, <<28,268435432>>, <<24,16777194>>,
  <<30,1073741820>>, <<28,268435433>>, <<28,268435434>>, <<30,1073741821>>, <<28,268435435>>,
  <<28,268435436>>, <<28,268435437>>, <<28,268435438>>, <<28,268435439>>, <<28,268435440>>,
  <<28,268435441>>, <<28,268435442>>, <<30,1073741822>>, <<28,268435443>>, <<28,268435444>>,
  <<28,268435445>>, <<28,268435446>>, <<28,268435447>>, <<28,268435448>>, <<28,268435449>>,
  <<28,268435450>>, <<28,268435451>>, <<6,20>>, <<10,1016>>, <<10,1017>>, <<12,4090>>,
  <<13,8185>>, <<6,21>>, <<8,248>>, <<11,2042>>, <<10,1018>>, <<10,1019>>, <<8,249>>,
  <<11,2043>>, <<8,250>>, <<6,22>>, <<6,23>>, <<6,24>>, <<5,0>>, <<5,1>>, <<5,2>>, <<6,25>>,
  <<6,26>>, <<6,27>>, <<6,28>>, <<6,29>>, <<6,30>>, <<6,31>>, <<7,92>>, <<8,251>>,
  <<15,32764>>, <<6,32>>, <<12,4091>>, <<10,1020>>, <<13,8186>>, <<6,33>>, <<7,93>>, <<7,94>>,
  <<7,95>>, <<7,96>>, <<7,97>>, <<7,98>>, <<7,99>>, <<7,100>>, <<7,101>>, <<7,102>>,
  <<7,103>>, <<7,104>>, <<7,105>>, <<7,106>>, <<7,107>>, <<7,108>>, <<7,109>>, <<7,110>>,
  <<7,111>>, <<7,112>>, <<7,113>>, <<7,114>>, <<8,252>>, <<7,115>>, <<8,253>>, <<13,8187>>,
  <<19,524272>>, <<13,8188>>, <<14,16380>>, <<6,34>>, <<15,32765>>, <<5,3>>, <<6,35>>,
  <<5,4>>, <<6,36>>, <<5,5>>, <<6,37>>, <<6,38>>, <<6,39>>, <<5,6>>, <<7,116>>, <<7,117>>,
  <<6,40>>, <<6,41>>, <<6,42>>, <<5,7>>, <<6,43>>, <<7,118>>, <<6,44>>, <<5,8>>, <<5,9>>,
  <<6,45>>, <<7,119>>, <<7,120>>, <<7,121>>, <<7,122>>, <<7,123>>, <<15,32766>>, <<11,2044>>,
  <<14,16381>>, <<13,8189>>, <<28,268435452>>, <<20,1048550>>, <<22,4194258>>, <<20,1048551>>,
  <<20,1048552>>, <<22,4194259>>, <<22,4194260>>, <<22,4194261>>, <<23,8388569>>,
  <<22,4194262>>, <<23,8388570>>, <<23,8388571>>, <<23,8388572>>, <<23,8388573>>,
  <<23,8388574>>, <<24,16777195>>, <<23,8388575>>, <<24,16777196>>, <<24,16777197>>,
  <<22,4194263>>, <<23,8388576>>, <<24,16777198>>, <<23,8388577>>, <<23,8388578>>,
  <<23,8388579>>, <<23,8388580>>, <<21,2097116>>, <<22,4194264>>, <<23,8388581>>,
  <<22,4194265>>, <<23,8388582>>, <<23,8388583>>, <<24,16777199>>, <<22,4194266>>,
  <<21,2097117>>, <<20,1048553>>, <<22,4194267>>, <<22,4194268>>, <<23,8388584>>,
  <<23,8388585>>, <<21,2097118>>, <<23,8388586>>, <<22,4194269>>, <<22,4194270>>,
  <<24,16777200>>, <<21,2097119>>, <<22,4194271>>, <<23,8388587>>, <<23,8388588>>,
  <<21,2097120>>, <<21,2097121>>, <<22,4194272>>, <<21,2097122>>, <<23,8388589>>,
  <<22,4194273>>, <<23,8388590>>, <<23,8388591>>, <<20,1048554>>, <<22,4194274>>,
  <<22,4194275>>, <<22,4194276>>, <<23,8388592>>, <<22,4194277>>, <<22,4194278>>,
  <<23,8388593>>, <<26,67108832>>, <<26,67108833>>, <<20,1048555>>, <<19,524273>>,
  <<22,4194279>>, <<23,8388594>>, <<22,4194280>>, <<25,33554412>>, <<26,67108834>>,
  <<26,67108835>>, <<26,67108836>>, <<27,134217694>>, <<27,134217695>>, <<26,67108837>>,
  <<24,16777201>>, <<25,33554413>>, <<19,524274>>, <<21,2097123>>, <<26,67108838>>,
  <<27,134217696>>, <<27,134217697>>, <<26,67108839>>, <<27,134217698>>, <<24,16777202>>,
  <<21,2097124>>, <<21,2097125>>, <<26,67108840>>, <<26,67108841>>, <<28,268435453>>,
  <<27,134217699>>, <<27,134217700>>, <<27,134217701>>, <<20,1048556>>, <<24,16777203>>,
  <<20,1048557>>, <<21,2097126>>, <<22,4194281>>, <<21,2097127>>, <<21,2097128>>,
  <<23,8388595>>, <<22,4194282>>, <<22,4194283>>, <<25,33554414>>, <<25,33554415>>,
  <<24,16777204>>, <<24,16777205>>, <<26,67108842>>, <<23,8388596>>, <<26,67108843>>,
  <<27,134217702>>, <<26,67108844>>, <<26,67108845>>, <<27,134217703>>, <<27,134217704>>,
  <<27,134217705>>, <<27,134217706>>, <<27,134217707>>, <<28,268435454>>, <<27,134217708>>,
  <<27,134217709>>, <<27,134217710>>, <<27,134217711>>, <<27,134217712>>, <<26,67108846>>,
  <<30,1073741823>> >>

Rows000 == <<
  <<<<4,0>>, <<5,0>>, <<7,0>>, <<8,0>>, <<11,0>>, <<12,0>>, <<16,0>>, <<19,0>>, <<25,0>>,
    <<28,0>>, <<32,0>>, <<35,0>>, <<42,0>>, <<49,0>>, <<57,0>>, <<16448,0>> >>,
  <<<<49152,48>>, <<49152,49>>, <<49152,50>>, <<49152,97>>, <<49152,99>>, <<49152,101>>,
    <<49152,105>>, <<49152,111>>, <<49152,115>>, <<49152,116>>, <<13,0>>, <<14,0>>, <<17,0>>,
    <<18,0>>, <<20,0>>, <<21,0>> >>,
  <<<<32769,48>>, <<49174,48>>, <<32769,49>>, <<49174,49>>, <<32769,50>>, <<49174,50>>,
    <<32769,97>>, <<49174,97>>, <<32769,99>>, <<49174,99>>, <<32769,101>>, <<49174,101>>,
    <<32769,105>>, <<49174,105>>, <<32769,111>>, <<49174,111>> >>,
  <<<<32770,48>>, <<32777,48>>, <<32791,48>>, <<49192,48>>, <<32770,49>>, <<32777,49>>,
    <<32791,49>>, <<49192,49>>, <<32770,50>>, <<32777,50>>, <<32791,50>>, <<49192,50>>,
    <<32770,97>>, <<32777,97>>, <<32791,97>>, <<49192,97>> >>,
  <<<<32771,48>>, <<32774,48>>, <<32778,48>>, <<32783,48>>, <<32792,48>>, <<32799,48>>,
    <<32809,48>>, <<49208,48>>, <<32771,49>>, <<32774,49>>, <<32778,49>>, <<32783,49>>,
    <<32792,49>>, <<32799,49>>, <<32809,49>>, <<49208,49>> >>,
  <<<<32771,50>>, <<32774,50>>, <<32778,50>>, <<32783,50>>, <<32792,50>>, <<32799,50>>,
    <<32809,50>>, <<49208,50>>, <<32771,97>>, <<32774,97>>, <<32778,97>>, <<32783,97>>,
    <<32792,97>>, <<32799,97>>, <<32809,97>>, <<49208,97>> >>,
  <<<<32770,99>>, <<32777,99>>, <<32791,99>>, <<49192,99>>, <<32770,101>>, <<32777,101>>,
    <<32791,101>>, <<49192,101>>, <<32770,105>>, <<32777,105>>, <<32791,105>>, <<49192,105>>,
    <<32770,111>>, <<32777,111>>, <<32791,111>>, <<49192,111>> >> >>

Rows007 == <<
  <<<<32771,99>>, <<32774,99>>, <<32778,99>>, <<32783,99>>, <<32792,99>>, <<32799,99>>,
    <<32809,99>>, <<49208,99>>, <<32771,101>>, <<32774,101>>, <<32778,101>>, <<32783,101>>,
    <<32792,101>>, <<32799,101>>, <<32809,101>>, <<49208,101>> >>,
  <<<<32771,105>>, <<32774,105>>, <<32778,105>>, <<32783,105>>, <<32792,105>>, <<32799,105>>,
    <<32809,105>>, <<49208,105>>, <<32771,111>>, <<32774,111>>, <<32778,111>>, <<32783,111>>,
    <<32792,111>>, <<32799,111>>, <<32809,111>>, <<49208,111>> >>,
  <<<<32769,115>>, <<49174,115>>, <<32769,116>>, <<49174,116>>, <<49152,32>>, <<49152,37>>,
    <<49152,45>>, <<49152,46>>, <<49152,47>>, <<49152,51>>, <<49152,52>>, <<49152,53>>,
    <<49152,54>>, <<49152,55>>, <<49152,56>>, <<49152,57>> >>,
  <<<<32770,115>>, <<32777,115>>, <<32791,115>>, <<49192,115>>, <<32770,116>>, <<32777,116>>,
    <<32791,116>>, <<49192,116>>, <<32769,32>>, <<49174,32>>, <<32769,37>>, <<49174,37>>,
    <<32769,45>>, <<49174,45>>, <<32769,46>>, <<49174,46>> >>,
  <<<<32771,115>>, <<32774,115>>, <<32778,115>>, <<32783,115>>, <<32792,115>>, <<32799,115>>,
    <<32809,115>>, <<49208,115>>, <<32771,116>>, <<32774,116>>, <<32778,116>>, <<32783,116>>,
    <<32792,116>>, <<32799,116>>, <<32809,116>>, <<49208,116>> >>,
  <<<<32770,32>>, <<32777,32>>, <<32791,32>>, <<49192,32>>, <<32770,37>>, <<32777,37>>,
    <<32791,37>>, <<49192,37>>, <<32770,45>>, <<32777,45>>, <<32791,45>>, <<49192,45>>,
    <<32770,46>>, <<32777,46>>, <<32791,46>>, <<49192,46>> >>,
  <<<<32771,32>>, <<32774,32>>, <<32778,32>>, <<32783,32>>, <<32792,32>>, <<32799,32>>,
    <<32809,32>>, <<49208,32>>, <<32771,37>>, <<32774,37>>, <<32778,37>>, <<32783,37>>,
    <<32792,37>>, <<32799,37>>, <<32809,37>>, <<49208,37>> >> >>

Rows014 == <<
  <<<<32771,45>>, <<32774,45>>, <<32778,45>>, <<32783,45>>, <<32792,45>>, <<32799,45>>,
    <<32809,45>>, <<49208,45>>, <<32771,46>>, <<32774,46>>, <<32778,46>>, <<32783,46>>,
    <<32792,46>>, <<32799,46>>, <<32809,46>>, <<49208,46>> >>,
  <<<<32769,47>>, <<49174,47>>, <<32769,51>>, <<49174,51>>, <<32769,52>>, <<49174,52>>,
    <<32769,53>>, <<49174,53>>, <<32769,54>>, <<49174,54>>, <<32769,55>>, <<49174,55>>,
    <<32769,56>>, <<49174,56>>, <<32769,57>>, <<49174,57>> >>,
  <<<<32770,47>>, <<32777,47>>, <<32791,47>>, <<49192,47>>, <<32770,51>>, <<32777,51>>,
    <<32791,51>>, <<49192,51>>, <<32770,52>>, <<32777,52>>, <<32791,52>>, <<49192,52>>,
    <<32770,53>>, <<32777,53>>, <<32791,53>>, <<49192,53>> >>,
  <<<<32771,47>>, <<32774,47>>, <<32778,47>>, <<32783,47>>, <<32792,47>>, <<32799,47>>,
    <<32809,47>>, <<49208,47>>, <<32771,51>>, <<32774,51>>, <<32778,51>>, <<32783,51>>,
    <<32792,51>>, <<32799,51>>, <<32809,51>>, <<49208,51>> >>,
  <<<<32771,52>>, <<32774,52>>, <<32778,52>>, <<32783,52>>, <<32792,52>>, <<32799,52>>,
    <<32809,52>>, <<49208,52>>, <<32771,53>>, <<32774,53>>, <<32778,53>>, <<32783,53>>,
    <<32792,53>>, <<32799,53>>, <<32809,53>>, <<49208,53>> >>,
  <<<<32770,54>>, <<32777,54>>, <<32791,54>>, <<49192,54>>, <<32770,55>>, <<32777,55>>,
    <<32791,55>>, <<49192,55>>, <<32770,56>>, <<32777,56>>, <<32791,56>>, <<49192,56>>,
    <<32770,57>>, <<32777,57>>, <<32791,57>>, <<49192,57>> >>,
  <<<<32771,54>>, <<32774,54>>, <<32778,54>>, <<32783,54>>, <<32792,54>>, <<32799,54>>,
    <<32809,54>>, <<49208,54>>, <<32771,55>>, <<32774,55>>, <<32778,55>>, <<32783,55>>,
    <<32792,55>>, <<32799,55>>, <<32809,55>>, <<49208,55>> >> >>

Rows021 == <<
  <<<<32771,56>>, <<32774,56>>, <<32778,56>>, <<32783,56>>, <<32792,56>>, <<32799,56>>,
    <<32809,56>>, <<49208,56>>, <<32771,57>>, <<32774,57>>, <<32778,57>>, <<32783,57>>,
    <<32792,57>>, <<32799,57>>, <<32809,57>>, <<49208,57>> >>,
  <<<<26,0>>, <<27,0>>, <<29,0>>, <<30,0>>, <<33,0>>, <<34,0>>, <<36,0>>, <<37,0>>, <<43,0>>,
    <<46,0>>, <<50,0>>, <<53,0>>, <<58,0>>, <<61,0>>, <<65,0>>, <<16452,0>> >>,
  <<<<49152,61>>, <<49152,65>>, <<49152,95>>, <<49152,98>>, <<49152,100>>, <<49152,102>>,
    <<49152,103>>, <<49152,104>>, <<49152,108>>, <<49152,109>>, <<49152,110>>, <<49152,112>>,
    <<49152,114>>, <<49152,117>>, <<38,0>>, <<39,0>> >>,
  <<<<32769,61>>, <<49174,61>>, <<32769,65>>, <<49174,65>>, <<32769,95>>, <<49174,95>>,
    <<32769,98>>, <<49174,98>>, <<32769,100>>, <<49174,100>>, <<32769,102>>, <<49174,102>>,
    <<32769,103>>, <<49174,103>>, <<32769,104>>, <<49174,104>> >>,
  <<<<32770,61>>, <<32777,61>>, <<32791,61>>, <<49192,61>>, <<32770,65>>, <<32777,65>>,
    <<32791,65>>, <<49192,65>>, <<32770,95>>, <<32777,95>>, <<32791,95>>, <<49192,95>>,
    <<32770,98>>, <<32777,98>>, <<32791,98>>, <<49192,98>> >>,
  <<<<32771,61>>, <<32774,61>>, <<32778,61>>, <<32783,61>>, <<32792,61>>, <<32799,61>>,
    <<32809,61>>, <<49208,61>>, <<32771,65>>, <<32774,65>>, <<32778,65>>, <<32783,65>>,
    <<32792,65>>, <<32799,65>>, <<32809,65>>, <<49208,65>> >>,
  <<<<32771,95>>, <<32774,95>>, <<32778,95>>, <<32783,95>>, <<32792,95>>, <<32799,95>>,
    <<32809,95>>, <<49208,95>>, <<32771,98>>, <<32774,98>>, <<32778,98>>, <<32783,98>>,
    <<32792,98>>, <<32799,98>>, <<32809,98>>, <<49208,98>> >> >>

Rows028 == <<
  <<<<32770,100>>, <<32777,100>>, <<32791,100>>, <<49192,100>>, <<32770,102>>, <<32777,102>>,
    <<32791,102>>, <<49192,102>>, <<32770,103>>, <<32777,103>>, <<32791,103>>, <<49192,103>>,
    <<32770,104>>, <<32777,104>>, <<32791,104>>, <<49192,104>> >>,
  <<<<32771,100>>, <<32774,100>>, <<32778,100>>, <<32783,100>>, <<32792,100>>, <<32799,100>>,
    <<32809,100>>, <<49208,100>>, <<32771,102>>, <<32774,102>>, <<32778,102>>, <<32783,102>>,
    <<32792,102>>, <<32799,102>>, <<32809,102>>, <<49208,102>> >>,
  <<<<32771,103>>, <<32774,103>>, <<32778,103>>, <<32783,103>>, <<32792,103>>, <<32799,103>>,
    <<32809,103>>, <<49208,103>>, <<32771,104>>, <<32774,104>>, <<32778,104>>, <<32783,104>>,
    <<32792,104>>, <<32799,104>>, <<32809,104>>, <<49208,104>> >>,
  <<<<32769,108>>, <<49174,108>>, <<32769,109>>, <<49174,109>>, <<32769,110>>, <<49174,110>>,
    <<32769,112>>, <<49174,112>>, <<32769,114>>, <<49174,114>>, <<32769,117>>, <<49174,117>>,
    <<49152,58>>, <<49152,66>>, <<49152,67>>, <<49152,68>> >>,
  <<<<32770,108>>, <<32777,108>>, <<32791,108>>, <<49192,108>>, <<32770,109>>, <<32777,109>>,
    <<32791,109>>, <<49192,109>>, <<32770,110>>, <<32777,110>>, <<32791,110>>, <<49192,110>>,
    <<32770,112>>, <<32777,112>>, <<32791,112>>, <<49192,112>> >>,
  <<<<32771,108>>, <<32774,108>>, <<32778,108>>, <<32783,108>>, <<32792,108>>, <<32799,108>>,
    <<32809,108>>, <<49208,108>>, <<32771,109>>, <<32774,109>>, <<32778,109>>, <<32783,109>>,
    <<32792,109>>, <<32799,109>>, <<32809,109>>, <<49208,109>> >>,
  <<<<32771,110>>, <<32774,110>>, <<32778,110>>, <<32783,110>>, <<32792,110>>, <<32799,110>>,
    <<32809,110>>, <<49208,110>>, <<32771,112>>, <<32774,112>>, <<32778,112>>, <<32783,112>>,
    <<32792,112>>, <<32799,112>>, <<32809,112>>, <<49208,112>> >> >>

Rows035 == <<
  <<<<32770,114>>, <<32777,114>>, <<32791,114>>, <<49192,114>>, <<32770,117>>, <<32777,117>>,
    <<32791,117>>, <<49192,117>>, <<32769,58>>, <<49174,58>>, <<32769,66>>, <<49174,66>>,
    <<32769,67>>, <<49174,67>>, <<32769,68>>, <<49174,68>> >>,
  <<<<32771,114>>, <<32774,114>>, <<32778,114>>, <<32783,114>>, <<32792,114>>, <<32799,114>>,
    <<32809,114>>, <<49208,114>>, <<32771,117>>, <<32774,117>>, <<32778,117>>, <<32783,117>>,
    <<32792,117>>, <<32799,117>>, <<32809,117>>, <<49208,117>> >>,
  <<<<32770,58>>, <<32777,58>>, <<32791,58>>, <<49192,58>>, <<32770,66>>, <<32777,66>>,
    <<32791,66>>, <<49192,66>>, <<32770,67>>, <<32777,67>>, <<32791,67>>, <<49192,67>>,
    <<32770,68>>, <<32777,68>>, <<32791,68>>, <<49192,68>> >>,
  <<<<32771,58>>, <<32774,58>>, <<32778,58>>, <<32783,58>>, <<32792,58>>, <<32799,58>>,
    <<32809,58>>, <<49208,58>>, <<32771,66>>, <<32774,66>>, <<32778,66>>, <<32783,66>>,
    <<32792,66>>, <<32799,66>>, <<32809,66>>, <<49208,66>> >>,
  <<<<32771,67>>, <<32774,67>>, <<32778,67>>, <<32783,67>>, <<32792,67>>, <<32799,67>>,
    <<32809,67>>, <<49208,67>>, <<32771,68>>, <<32774,68>>, <<32778,68>>, <<32783,68>>,
    <<32792,68>>, <<32799,68>>, <<32809,68>>, <<49208,68>> >>,
  <<<<44,0>>, <<45,0>>, <<47,0>>, <<48,0>>, <<51,0>>, <<52,0>>, <<54,0>>, <<55,0>>, <<59,0>>,
    <<60,0>>, <<62,0>>, <<63,0>>, <<66,0>>, <<67,0>>, <<69,0>>, <<16456,0>> >>,
  <<<<49152,69>>, <<49152,70>>, <<49152,71>>, <<49152,72>>, <<49152,73>>, <<49152,74>>,
    <<49152,75>>, <<49152,76>>, <<49152,77>>, <<49152,78>>, <<49152,79>>, <<49152,80>>,
    <<49152,81>>, <<49152,82>>, <<49152,83>>, <<49152,84>> >> >>

Rows042 == <<
  <<<<32769,69>>, <<49174,69>>, <<32769,70>>, <<49174,70>>, <<32769,71>>, <<49174,71>>,
    <<32769,72>>, <<49174,72>>, <<32769,73>>, <<49174,73>>, <<32769,74>>, <<49174,74>>,
    <<32769,75>>, <<49174,75>>, <<32769,76>>, <<49174,76>> >>,
  <<<<32770,69>>, <<32777,69>>, <<32791,69>>, <<49192,69>>, <<32770,70>>, <<32777,70>>,
    <<32791,70>>, <<49192,70>>, <<32770,71>>, <<32777,71>>, <<32791,71>>, <<49192,71>>,
    <<32770,72>>, <<32777,72>>, <<32791,72>>, <<49192,72>> >>,
  <<<<32771,69>>, <<32774,69>>, <<32778,69>>, <<32783,69>>, <<32792,69>>, <<32799,69>>,
    <<32809,69>>, <<49208,69>>, <<32771,70>>, <<32774,70>>, <<32778,70>>, <<32783,70>>,
    <<32792,70>>, <<32799,70>>, <<32809,70>>, <<49208,70>> >>,
  <<<<32771,71>>, <<32774,71>>, <<32778,71>>, <<32783,71>>, <<32792,71>>, <<32799,71>>,
    <<32809,71>>, <<49208,71>>, <<32771,72>>, <<32774,72>>, <<32778,72>>, <<32783,72>>,
    <<32792,72>>, <<32799,72>>, <<32809,72>>, <<49208,72>> >>,
  <<<<32770,73>>, <<32777,73>>, <<32791,73>>, <<49192,73>>, <<32770,74>>, <<32777,74>>,
    <<32791,74>>, <<49192,74>>, <<32770,75>>, <<32777,75>>, <<32791,75>>, <<49192,75>>,
    <<32770,76>>, <<32777,76>>, <<32791,76>>, <<49192,76>> >>,
  <<<<32771,73>>, <<32774,73>>, <<32778,73>>, <<32783,73>>, <<32792,73>>, <<32799,73>>,
    <<32809,73>>, <<49208,73>>, <<32771,74>>, <<32774,74>>, <<32778,74>>, <<32783,74>>,
    <<32792,74>>, <<32799,74>>, <<32809,74>>, <<49208,74>> >>,
  <<<<32771,75>>, <<32774,75>>, <<32778,75>>, <<32783,75>>, <<32792,75>>, <<32799,75>>,
    <<32809,75>>, <<49208,75>>, <<32771,76>>, <<32774,76>>, <<32778,76>>, <<32783,76>>,
    <<32792,76>>, <<32799,76>>, <<32809,76>>, <<49208,76>> >> >>

Rows049 == <<
  <<<<32769,77>>, <<49174,77>>, <<32769,78>>, <<49174,78>>, <<32769,79>>, <<49174,79>>,
    <<32769,80>>, <<49174,80>>, <<32769,81>>, <<49174,81>>, <<32769,82>>, <<49174,82>>,
    <<32769,83>>, <<49174,83>>, <<32769,84>>, <<49174,84>> >>,
  <<<<32770,77>>, <<32777,77>>, <<32791,77>>, <<49192,77>>, <<32770,78>>, <<32777,78>>,
    <<32791,78>>, <<49192,78>>, <<32770,79>>, <<32777,79>>, <<32791,79>>, <<49192,79>>,
    <<32770,80>>, <<32777,80>>, <<32791,80>>, <<49192,80>> >>,
  <<<<32771,77>>, <<32774,77>>, <<32778,77>>, <<32783,77>>, <<32792,77>>, <<32799,77>>,
    <<32809,77>>, <<49208,77>>, <<32771,78>>, <<32774,78>>, <<32778,78>>, <<32783,78>>,
    <<32792,78>>, <<32799,78>>, <<32809,78>>, <<49208,78>> >>,
  <<<<32771,79>>, <<32774,79>>, <<32778,79>>, <<32783,79>>, <<32792,79>>, <<32799,79>>,
    <<32809,79>>, <<49208,79>>, <<32771,80>>, <<32774,80>>, <<32778,80>>, <<32783,80>>,
    <<32792,80>>, <<32799,80>>, <<32809,80>>, <<49208,80>> >>,
  <<<<32770,81>>, <<32777,81>>, <<32791,81>>, <<49192,81>>, <<32770,82>>, <<32777,82>>,
    <<32791,82>>, <<49192,82>>, <<32770,83>>, <<32777,83>>, <<32791,83>>, <<49192,83>>,
    <<32770,84>>, <<32777,84>>, <<32791,84>>, <<49192,84>> >>,
  <<<<32771,81>>, <<32774,81>>, <<32778,81>>, <<32783,81>>, <<32792,81>>, <<32799,81>>,
    <<32809,81>>, <<49208,81>>, <<32771,82>>, <<32774,82>>, <<32778,82>>, <<32783,82>>,
    <<32792,82>>, <<32799,82>>, <<32809,82>>, <<49208,82>> >>,
  <<<<32771,83>>, <<32774,83>>, <<32778,83>>, <<32783,83>>, <<32792,83>>, <<32799,83>>,
    <<32809,83>>, <<49208,83>>, <<32771,84>>, <<32774,84>>, <<32778,84>>, <<32783,84>>,
    <<32792,84>>, <<32799,84>>, <<32809,84>>, <<49208,84>> >> >>

Rows056 == <<
  <<<<49152,85>>, <<49152,86>>, <<49152,87>>, <<49152,89>>, <<49152,106>>, <<49152,107>>,
    <<49152,113>>, <<49152,118>>, <<49152,119>>, <<49152,120>>, <<49152,121>>, <<49152,122>>,
    <<70,0>>, <<71,0>>, <<73,0>>, <<16458,0>> >>,
  <<<<32769,85>>, <<49174,85>>, <<32769,86>>, <<49174,86>>, <<32769,87>>, <<49174,87>>,
    <<32769,89>>, <<49174,89>>, <<32769,106>>, <<49174,106>>, <<32769,107>>, <<49174,107>>,
    <<32769,113>>, <<49174,113>>, <<32769,118>>, <<49174,118>> >>,
  <<<<32770,85>>, <<32777,85>>, <<32791,85>>, <<49192,85>>, <<32770,86>>, <<32777,86>>,
    <<32791,86>>, <<49192,86>>, <<32770,87>>, <<32777,87>>, <<32791,87>>, <<49192,87>>,
    <<32770,89>>, <<32777,89>>, <<32791,89>>, <<49192,89>> >>,
  <<<<32771,85>>, <<32774,85>>, <<32778,85>>, <<32783,85>>, <<32792,85>>, <<32799,85>>,
    <<32809,85>>, <<49208,85>>, <<32771,86>>, <<32774,86>>, <<32778,86>>, <<32783,86>>,
    <<32792,86>>, <<32799,86>>, <<32809,86>>, <<49208,86>> >>,
  <<<<32771,87>>, <<32774,87>>, <<32778,87>>, <<32783,87>>, <<32792,87>>, <<32799,87>>,
    <<32809,87>>, <<49208,87>>, <<32771,89>>, <<32774,89>>, <<32778,89>>, <<32783,89>>,
    <<32792,89>>, <<32799,89>>, <<32809,89>>, <<49208,89>> >>,
  <<<<32770,106>>, <<32777,106>>, <<32791,106>>, <<49192,106>>, <<32770,107>>, <<32777,107>>,
    <<32791,107>>, <<49192,107>>, <<32770,113>>, <<32777,113>>, <<32791,113>>, <<49192,113>>,
    <<32770,118>>, <<32777,118>>, <<32791,118>>, <<49192,118>> >>,
  <<<<32771,106>>, <<32774,106>>, <<32778,106>>, <<32783,106>>, <<32792,106>>, <<32799,106>>,
    <<32809,106>>, <<49208,106>>, <<32771,107>>, <<32774,107>>, <<32778,107>>, <<32783,107>>,
    <<32792,107>>, <<32799,107>>, <<32809,107>>, <<49208,107>> >> >>

Rows063 == <<
  <<<<32771,113>>, <<32774,113>>, <<32778,113>>, <<32783,113>>, <<32792,113>>, <<32799,113>>,
    <<32809,113>>, <<49208,113>>, <<32771,118>>, <<32774,118>>, <<32778,118>>, <<32783,118>>,
    <<32792,118>>, <<32799,118>>, <<32809,118>>, <<49208,118>> >>,
  <<<<32769,119>>, <<49174,119>>, <<32769,120>>, <<49174,120>>, <<32769,121>>, <<49174,121>>,
    <<32769,122>>, <<49174,122>>, <<49152,38>>, <<49152,42>>, <<49152,44>>, <<49152,59>>,
    <<49152,88>>, <<49152,90>>, <<75,0>>, <<78,0>> >>,
  <<<<32770,119>>, <<32777,119>>, <<32791,119>>, <<49192,119>>, <<32770,120>>, <<32777,120>>,
    <<32791,120>>, <<49192,120>>, <<32770,121>>, <<32777,121>>, <<32791,121>>, <<49192,121>>,
    <<32770,122>>, <<32777,122>>, <<32791,122>>, <<49192,122>> >>,
  <<<<32771,119>>, <<32774,119>>, <<32778,119>>, <<32783,119>>, <<32792,119>>, <<32799,119>>,
    <<32809,119>>, <<49208,119>>, <<32771,120>>, <<32774,120>>, <<32778,120>>, <<32783,120>>,
    <<32792,120>>, <<32799,120>>, <<32809,120>>, <<49208,120>> >>,
  <<<<32771,121>>, <<32774,121>>, <<32778,121>>, <<32783,121>>, <<32792,121>>, <<32799,121>>,
    <<32809,121>>, <<49208,121>>, <<32771,122>>, <<32774,122>>, <<32778,122>>, <<32783,122>>,
    <<32792,122>>, <<32799,122>>, <<32809,122>>, <<49208,122>> >>,
  <<<<32769,38>>, <<49174,38>>, <<32769,42>>, <<49174,42>>, <<32769,44>>, <<49174,44>>,
    <<32769,59>>, <<49174,59>>, <<32769,88>>, <<49174,88>>, <<32769,90>>, <<49174,90>>,
    <<76,0>>, <<77,0>>, <<79,0>>, <<81,0>> >>,
  <<<<32770,38>>, <<32777,38>>, <<32791,38>>, <<49192,38>>, <<32770,42>>, <<32777,42>>,
    <<32791,42>>, <<49192,42>>, <<32770,44>>, <<32777,44>>, <<32791,44>>, <<49192,44>>,
    <<32770,59>>, <<32777,59>>, <<32791,59>>, <<49192,59>> >> >>

Rows070 == <<
  <<<<32771,38>>, <<32774,38>>, <<32778,38>>, <<32783,38>>, <<32792,38>>, <<32799,38>>,
    <<32809,38>>, <<49208,38>>, <<32771,42>>, <<32774,42>>, <<32778,42>>, <<32783,42>>,
    <<32792,42>>, <<32799,42>>, <<32809,42>>, <<49208,42>> >>,
  <<<<32771,44>>, <<32774,44>>, <<32778,44>>, <<32783,44>>, <<32792,44>>, <<32799,44>>,
    <<32809,44>>, <<49208,44>>, <<32771,59>>, <<32774,59>>, <<32778,59>>, <<32783,59>>,
    <<32792,59>>, <<32799,59>>, <<32809,59>>, <<49208,59>> >>,
  <<<<32770,88>>, <<32777,88>>, <<32791,88>>, <<49192,88>>, <<32770,90>>, <<32777,90>>,
    <<32791,90>>, <<49192,90>>, <<49152,33>>, <<49152,34>>, <<49152,40>>, <<49152,41>>,
    <<49152,63>>, <<80,0>>, <<82,0>>, <<84,0>> >>,
  <<<<32771,88>>, <<32774,88>>, <<32778,88>>, <<32783,88>>, <<32792,88>>, <<32799,88>>,
    <<32809,88>>, <<49208,88>>, <<32771,90>>, <<32774,90>>, <<32778,90>>, <<32783,90>>,
    <<32792,90>>, <<32799,90>>, <<32809,90>>, <<49208,90>> >>,
  <<<<32769,33>>, <<49174,33>>, <<32769,34>>, <<49174,34>>, <<32769,40>>, <<49174,40>>,
    <<32769,41>>, <<49174,41>>, <<32769,63>>, <<49174,63>>, <<49152,39>>, <<49152,43>>,
    <<49152,124>>, <<83,0>>, <<85,0>>, <<88,0>> >>,
  <<<<32770,33>>, <<32777,33>>, <<32791,33>>, <<49192,33>>, <<32770,34>>, <<32777,34>>,
    <<32791,34>>, <<49192,34>>, <<32770,40>>, <<32777,40>>, <<32791,40>>, <<49192,40>>,
    <<32770,41>>, <<32777,41>>, <<32791,41>>, <<49192,41>> >>,
  <<<<32771,33>>, <<32774,33>>, <<32778,33>>, <<32783,33>>, <<32792,33>>, <<32799,33>>,
    <<32809,33>>, <<49208,33>>, <<32771,34>>, <<32774,34>>, <<32778,34>>, <<32783,34>>,
    <<32792,34>>, <<32799,34>>, <<32809,34>>, <<49208,34>> >> >>

Rows077 == <<
  <<<<32771,40>>, <<32774,40>>, <<32778,40>>, <<32783,40>>, <<32792,40>>, <<32799,40>>,
    <<32809,40>>, <<49208,40>>, <<32771,41>>, <<32774,41>>, <<32778,41>>, <<32783,41>>,
    <<32792,41>>, <<32799,41>>, <<32809,41>>, <<49208,41>> >>,
  <<<<32770,63>>, <<32777,63>>, <<32791,63>>, <<49192,63>>, <<32769,39>>, <<49174,39>>,
    <<32769,43>>, <<49174,43>>, <<32769,124>>, <<49174,124>>, <<49152,35>>, <<49152,62>>,
    <<86,0>>, <<87,0>>, <<89,0>>, <<90,0>> >>,
  <<<<32771,63>>, <<32774,63>>, <<32778,63>>, <<32783,63>>, <<32792,63>>, <<32799,63>>,
    <<32809,63>>, <<49208,63>>, <<32770,39>>, <<32777,39>>, <<32791,39>>, <<49192,39>>,
    <<32770,43>>, <<32777,43>>, <<32791,43>>, <<49192,43>> >>,
  <<<<32771,39>>, <<32774,39>>, <<32778,39>>, <<32783,39>>, <<32792,39>>, <<32799,39>>,
    <<32809,39>>, <<49208,39>>, <<32771,43>>, <<32774,43>>, <<32778,43>>, <<32783,43>>,
    <<32792,43>>, <<32799,43>>, <<32809,43>>, <<49208,43>> >>,
  <<<<32770,124>>, <<32777,124>>, <<32791,124>>, <<49192,124>>, <<32769,35>>, <<49174,35>>,
    <<32769,62>>, <<49174,62>>, <<49152,0>>, <<49152,36>>, <<49152,64>>, <<49152,91>>,
    <<49152,93>>, <<49152,126>>, <<91,0>>, <<92,0>> >>,
  <<<<32771,124>>, <<32774,124>>, <<32778,124>>, <<32783,124>>, <<32792,124>>, <<32799,124>>,
    <<32809,124>>, <<49208,124>>, <<32770,35>>, <<32777,35>>, <<32791,35>>, <<49192,35>>,
    <<32770,62>>, <<32777,62>>, <<32791,62>>, <<49192,62>> >>,
  <<<<32771,35>>, <<32774,35>>, <<32778,35>>, <<32783,35>>, <<32792,35>>, <<32799,35>>,
    <<32809,35>>, <<49208,35>>, <<32771,62>>, <<32774,62>>, <<32778,62>>, <<32783,62>>,
    <<32792,62>>, <<32799,62>>, <<32809,62>>, <<49208,62>> >> >>

Rows084 == <<
  <<<<32769,0>>, <<49174,0>>, <<32769,36>>, <<49174,36>>, <<32769,64>>, <<49174,64>>,
    <<32769,91>>, <<49174,91>>, <<32769,93>>, <<49174,93>>, <<32769,126>>, <<49174,126>>,
    <<49152,94>>, <<49152,125>>, <<93,0>>, <<94,0>> >>,
  <<<<32770,0>>, <<32777,0>>, <<32791,0>>, <<49192,0>>, <<32770,36>>, <<32777,36>>,
    <<32791,36>>, <<49192,36>>, <<32770,64>>, <<32777,64>>, <<32791,64>>, <<49192,64>>,
    <<32770,91>>, <<32777,91>>, <<32791,91>>, <<49192,91>> >>,
  <<<<32771,0>>, <<32774,0>>, <<32778,0>>, <<32783,0>>, <<32792,0>>, <<32799,0>>, <<32809,0>>,
    <<49208,0>>, <<32771,36>>, <<32774,36>>, <<32778,36>>, <<32783,36>>, <<32792,36>>,
    <<32799,36>>, <<32809,36>>, <<49208,36>> >>,
  <<<<32771,64>>, <<32774,64>>, <<32778,64>>, <<32783,64>>, <<32792,64>>, <<32799,64>>,
    <<32809,64>>, <<49208,64>>, <<32771,91>>, <<32774,91>>, <<32778,91>>, <<32783,91>>,
    <<32792,91>>, <<32799,91>>, <<32809,91>>, <<49208,91>> >>,
  <<<<32770,93>>, <<32777,93>>, <<32791,93>>, <<49192,93>>, <<32770,126>>, <<32777,126>>,
    <<32791,126>>, <<49192,126>>, <<32769,94>>, <<49174,94>>, <<32769,125>>, <<49174,125>>,
    <<49152,60>>, <<49152,96>>, <<49152,123>>, <<95,0>> >>,
  <<<<32771,93>>, <<32774,93>>, <<32778,93>>, <<32783,93>>, <<32792,93>>, <<32799,93>>,
    <<32809,93>>, <<49208,93>>, <<32771,126>>, <<32774,126>>, <<32778,126>>, <<32783,126>>,
    <<32792,126>>, <<32799,126>>, <<32809,126>>, <<49208,126>> >>,
  <<<<32770,94>>, <<32777,94>>, <<32791,94>>, <<49192,94>>, <<32770,125>>, <<32777,125>>,
    <<32791,125>>, <<49192,125>>, <<32769,60>>, <<49174,60>>, <<32769,96>>, <<49174,96>>,
    <<32769,123>>, <<49174,123>>, <<96,0>>, <<110,0>> >> >>

Rows091 == <<
  <<<<32771,94>>, <<32774,94>>, <<32778,94>>, <<32783,94>>, <<32792,94>>, <<32799,94>>,
    <<32809,94>>, <<49208,94>>, <<32771,125>>, <<32774,125>>, <<32778,125>>, <<32783,125>>,
    <<32792,125>>, <<32799,125>>, <<32809,125>>, <<49208,125>> >>,
  <<<<32770,60>>, <<32777,60>>, <<32791,60>>, <<49192,60>>, <<32770,96>>, <<32777,96>>,
    <<32791,96>>, <<49192,96>>, <<32770,123>>, <<32777,123>>, <<32791,123>>, <<49192,123>>,
    <<97,0>>, <<101,0>>, <<111,0>>, <<133,0>> >>,
  <<<<32771,60>>, <<32774,60>>, <<32778,60>>, <<32783,60>>, <<32792,60>>, <<32799,60>>,
    <<32809,60>>, <<49208,60>>, <<32771,96>>, <<32774,96>>, <<32778,96>>, <<32783,96>>,
    <<32792,96>>, <<32799,96>>, <<32809,96>>, <<49208,96>> >>,
  <<<<32771,123>>, <<32774,123>>, <<32778,123>>, <<32783,123>>, <<32792,123>>, <<32799,123>>,
    <<32809,123>>, <<49208,123>>, <<98,0>>, <<99,0>>, <<102,0>>, <<105,0>>, <<112,0>>,
    <<119,0>>, <<134,0>>, <<153,0>> >>,
  <<<<49152,92>>, <<49152,195>>, <<49152,208>>, <<100,0>>, <<103,0>>, <<104,0>>, <<106,0>>,
    <<107,0>>, <<113,0>>, <<116,0>>, <<120,0>>, <<126,0>>, <<135,0>>, <<142,0>>, <<154,0>>,
    <<169,0>> >>,
  <<<<32769,92>>, <<49174,92>>, <<32769,195>>, <<49174,195>>, <<32769,208>>, <<49174,208>>,
    <<49152,128>>, <<49152,130>>, <<49152,131>>, <<49152,162>>, <<49152,184>>, <<49152,194>>,
    <<49152,224>>, <<49152,226>>, <<108,0>>, <<109,0>> >>,
  <<<<32770,92>>, <<32777,92>>, <<32791,92>>, <<49192,92>>, <<32770,195>>, <<32777,195>>,
    <<32791,195>>, <<49192,195>>, <<32770,208>>, <<32777,208>>, <<32791,208>>, <<49192,208>>,
    <<32769,128>>, <<49174,128>>, <<32769,130>>, <<49174,130>> >> >>

Rows098 == <<
  <<<<32771,92>>, <<32774,92>>, <<32778,92>>, <<32783,92>>, <<32792,92>>, <<32799,92>>,
    <<32809,92>>, <<49208,92>>, <<32771,195>>, <<32774,195>>, <<32778,195>>, <<32783,195>>,
    <<32792,195>>, <<32799,195>>, <<32809,195>>, <<49208,195>> >>,
  <<<<32771,208>>, <<32774,208>>, <<32778,208>>, <<32783,208>>, <<32792,208>>, <<32799,208>>,
    <<32809,208>>, <<49208,208>>, <<32770,128>>, <<32777,128>>, <<32791,128>>, <<49192,128>>,
    <<32770,130>>, <<32777,130>>, <<32791,130>>, <<49192,130>> >>,
  <<<<32771,128>>, <<32774,128>>, <<32778,128>>, <<32783,128>>, <<32792,128>>, <<32799,128>>,
    <<32809,128>>, <<49208,128>>, <<32771,130>>, <<32774,130>>, <<32778,130>>, <<32783,130>>,
    <<32792,130>>, <<32799,130>>, <<32809,130>>, <<49208,130>> >>,
  <<<<32769,131>>, <<49174,131>>, <<32769,162>>, <<49174,162>>, <<32769,184>>, <<49174,184>>,
    <<32769,194>>, <<49174,194>>, <<32769,224>>, <<49174,224>>, <<32769,226>>, <<49174,226>>,
    <<49152,153>>, <<49152,161>>, <<49152,167>>, <<49152,172>> >>,
  <<<<32770,131>>, <<32777,131>>, <<32791,131>>, <<49192,131>>, <<32770,162>>, <<32777,162>>,
    <<32791,162>>, <<49192,162>>, <<32770,184>>, <<32777,184>>, <<32791,184>>, <<49192,184>>,
    <<32770,194>>, <<32777,194>>, <<32791,194>>, <<49192,194>> >>,
  <<<<32771,131>>, <<32774,131>>, <<32778,131>>, <<32783,131>>, <<32792,131>>, <<32799,131>>,
    <<32809,131>>, <<49208,131>>, <<32771,162>>, <<32774,162>>, <<32778,162>>, <<32783,162>>,
    <<32792,162>>, <<32799,162>>, <<32809,162>>, <<49208,162>> >>,
  <<<<32771,184>>, <<32774,184>>, <<32778,184>>, <<32783,184>>, <<32792,184>>, <<32799,184>>,
    <<32809,184>>, <<49208,184>>, <<32771,194>>, <<32774,194>>, <<32778,194>>, <<32783,194>>,
    <<32792,194>>, <<32799,194>>, <<32809,194>>, <<49208,194>> >> >>

Rows105 == <<
  <<<<32770,224>>, <<32777,224>>, <<32791,224>>, <<49192,224>>, <<32770,226>>, <<32777,226>>,
    <<32791,226>>, <<49192,226>>, <<32769,153>>, <<49174,153>>, <<32769,161>>, <<49174,161>>,
    <<32769,167>>, <<49174,167>>, <<32769,172>>, <<49174,172>> >>,
  <<<<32771,224>>, <<32774,224>>, <<32778,224>>, <<32783,224>>, <<32792,224>>, <<32799,224>>,
    <<32809,224>>, <<49208,224>>, <<32771,226>>, <<32774,226>>, <<32778,226>>, <<32783,226>>,
    <<32792,226>>, <<32799,226>>, <<32809,226>>, <<49208,226>> >>,
  <<<<32770,153>>, <<32777,153>>, <<32791,153>>, <<49192,153>>, <<32770,161>>, <<32777,161>>,
    <<32791,161>>, <<49192,161>>, <<32770,167>>, <<32777,167>>, <<32791,167>>, <<49192,167>>,
    <<32770,172>>, <<32777,172>>, <<32791,172>>, <<49192,172>> >>,
  <<<<32771,153>>, <<32774,153>>, <<32778,153>>, <<32783,153>>, <<32792,153>>, <<32799,153>>,
    <<32809,153>>, <<49208,153>>, <<32771,161>>, <<32774,161>>, <<32778,161>>, <<32783,161>>,
    <<32792,161>>, <<32799,161>>, <<32809,161>>, <<49208,161>> >>,
  <<<<32771,167>>, <<32774,167>>, <<32778,167>>, <<32783,167>>, <<32792,167>>, <<32799,167>>,
    <<32809,167>>, <<49208,167>>, <<32771,172>>, <<32774,172>>, <<32778,172>>, <<32783,172>>,
    <<32792,172>>, <<32799,172>>, <<32809,172>>, <<49208,172>> >>,
  <<<<114,0>>, <<115,0>>, <<117,0>>, <<118,0>>, <<121,0>>, <<123,0>>, <<127,0>>, <<130,0>>,
    <<136,0>>, <<139,0>>, <<143,0>>, <<146,0>>, <<155,0>>, <<162,0>>, <<170,0>>, <<180,0>> >>,
  <<<<49152,176>>, <<49152,177>>, <<49152,179>>, <<49152,209>>, <<49152,216>>, <<49152,217>>,
    <<49152,227>>, <<49152,229>>, <<49152,230>>, <<122,0>>, <<124,0>>, <<125,0>>, <<128,0>>,
    <<129,0>>, <<131,0>>, <<132,0>> >> >>

Rows112 == <<
  <<<<32769,176>>, <<49174,176>>, <<32769,177>>, <<49174,177>>, <<32769,179>>, <<49174,179>>,
    <<32769,209>>, <<49174,209>>, <<32769,216>>, <<49174,216>>, <<32769,217>>, <<49174,217>>,
    <<32769,227>>, <<49174,227>>, <<32769,229>>, <<49174,229>> >>,
  <<<<32770,176>>, <<32777,176>>, <<32791,176>>, <<49192,176>>, <<32770,177>>, <<32777,177>>,
    <<32791,177>>, <<49192,177>>, <<32770,179>>, <<32777,179>>, <<32791,179>>, <<49192,179>>,
    <<32770,209>>, <<32777,209>>, <<32791,209>>, <<49192,209>> >>,
  <<<<32771,176>>, <<32774,176>>, <<32778,176>>, <<32783,176>>, <<32792,176>>, <<32799,176>>,
    <<32809,176>>, <<49208,176>>, <<32771,177>>, <<32774,177>>, <<32778,177>>, <<32783,177>>,
    <<32792,177>>, <<32799,177>>, <<32809,177>>, <<49208,177>> >>,
  <<<<32771,179>>, <<32774,179>>, <<32778,179>>, <<32783,179>>, <<32792,179>>, <<32799,179>>,
    <<32809,179>>, <<49208,179>>, <<32771,209>>, <<32774,209>>, <<32778,209>>, <<32783,209>>,
    <<32792,209>>, <<32799,209>>, <<32809,209>>, <<49208,209>> >>,
  <<<<32770,216>>, <<32777,216>>, <<32791,216>>, <<49192,216>>, <<32770,217>>, <<32777,217>>,
    <<32791,217>>, <<49192,217>>, <<32770,227>>, <<32777,227>>, <<32791,227>>, <<49192,227>>,
    <<32770,229>>, <<32777,229>>, <<32791,229>>, <<49192,229>> >>,
  <<<<32771,216>>, <<32774,216>>, <<32778,216>>, <<32783,216>>, <<32792,216>>, <<32799,216>>,
    <<32809,216>>, <<49208,216>>, <<32771,217>>, <<32774,217>>, <<32778,217>>, <<32783,217>>,
    <<32792,217>>, <<32799,217>>, <<32809,217>>, <<49208,217>> >>,
  <<<<32771,227>>, <<32774,227>>, <<32778,227>>, <<32783,227>>, <<32792,227>>, <<32799,227>>,
    <<32809,227>>, <<49208,227>>, <<32771,229>>, <<32774,229>>, <<32778,229>>, <<32783,229>>,
    <<32792,229>>, <<32799,229>>, <<32809,229>>, <<49208,229>> >> >>

Rows119 == <<
  <<<<32769,230>>, <<49174,230>>, <<49152,129>>, <<49152,132>>, <<49152,133>>, <<49152,134>>,
    <<49152,136>>, <<49152,146>>, <<49152,154>>, <<49152,156>>, <<49152,160>>, <<49152,163>>,
    <<49152,164>>, <<49152,169>>, <<49152,170>>, <<49152,173>> >>,
  <<<<32770,230>>, <<32777,230>>, <<32791,230>>, <<49192,230>>, <<32769,129>>, <<49174,129>>,
    <<32769,132>>, <<49174,132>>, <<32769,133>>, <<49174,133>>, <<32769,134>>, <<49174,134>>,
    <<32769,136>>, <<49174,136>>, <<32769,146>>, <<49174,146>> >>,
  <<<<32771,230>>, <<32774,230>>, <<32778,230>>, <<32783,230>>, <<32792,230>>, <<32799,230>>,
    <<32809,230>>, <<49208,230>>, <<32770,129>>, <<32777,129>>, <<32791,129>>, <<49192,129>>,
    <<32770,132>>, <<32777,132>>, <<32791,132>>, <<49192,132>> >>,
  <<<<32771,129>>, <<32774,129>>, <<32778,129>>, <<32783,129>>, <<32792,129>>, <<32799,129>>,
    <<32809,129>>, <<49208,129>>, <<32771,132>>, <<32774,132>>, <<32778,132>>, <<32783,132>>,
    <<32792,132>>, <<32799,132>>, <<32809,132>>, <<49208,132>> >>,
  <<<<32770,133>>, <<32777,133>>, <<32791,133>>, <<49192,133>>, <<32770,134>>, <<32777,134>>,
    <<32791,134>>, <<49192,134>>, <<32770,136>>, <<32777,136>>, <<32791,136>>, <<49192,136>>,
    <<32770,146>>, <<32777,146>>, <<32791,146>>, <<49192,146>> >>,
  <<<<32771,133>>, <<32774,133>>, <<32778,133>>, <<32783,133>>, <<32792,133>>, <<32799,133>>,
    <<32809,133>>, <<49208,133>>, <<32771,134>>, <<32774,134>>, <<32778,134>>, <<32783,134>>,
    <<32792,134>>, <<32799,134>>, <<32809,134>>, <<49208,134>> >>,
  <<<<32771,136>>, <<32774,136>>, <<32778,136>>, <<32783,136>>, <<32792,136>>, <<32799,136>>,
    <<32809,136>>, <<49208,136>>, <<32771,146>>, <<32774,146>>, <<32778,146>>, <<32783,146>>,
    <<32792,146>>, <<32799,146>>, <<32809,146>>, <<49208,146>> >> >>

Rows126 == <<
  <<<<32769,154>>, <<49174,154>>, <<32769,156>>, <<49174,156>>, <<32769,160>>, <<49174,160>>,
    <<32769,163>>, <<49174,163>>, <<32769,164>>, <<49174,164>>, <<32769,169>>, <<49174,169>>,
    <<32769,170>>, <<49174,170>>, <<32769,173>>, <<49174,173>> >>,
  <<<<32770,154>>, <<32777,154>>, <<32791,154>>, <<49192,154>>, <<32770,156>>, <<32777,156>>,
    <<32791,156>>, <<49192,156>>, <<32770,160>>, <<32777,160>>, <<32791,160>>, <<49192,160>>,
    <<32770,163>>, <<32777,163>>, <<32791,163>>, <<49192,163>> >>,
  <<<<32771,154>>, <<32774,154>>, <<32778,154>>, <<32783,154>>, <<32792,154>>, <<32799,154>>,
    <<32809,154>>, <<49208,154>>, <<32771,156>>, <<32774,156>>, <<32778,156>>, <<32783,156>>,
    <<32792,156>>, <<32799,156>>, <<32809,156>>, <<49208,156>> >>,
  <<<<32771,160>>, <<32774,160>>, <<32778,160>>, <<32783,160>>, <<32792,160>>, <<32799,160>>,
    <<32809,160>>, <<49208,160>>, <<32771,163>>, <<32774,163>>, <<32778,163>>, <<32783,163>>,
    <<32792,163>>, <<32799,163>>, <<32809,163>>, <<49208,163>> >>,
  <<<<32770,164>>, <<32777,164>>, <<32791,164>>, <<49192,164>>, <<32770,169>>, <<32777,169>>,
    <<32791,169>>, <<49192,169>>, <<32770,170>>, <<32777,170>>, <<32791,170>>, <<49192,170>>,
    <<32770,173>>, <<32777,173>>, <<32791,173>>, <<49192,173>> >>,
  <<<<32771,164>>, <<32774,164>>, <<32778,164>>, <<32783,164>>, <<32792,164>>, <<32799,164>>,
    <<32809,164>>, <<49208,164>>, <<32771,169>>, <<32774,169>>, <<32778,169>>, <<32783,169>>,
    <<32792,169>>, <<32799,169>>, <<32809,169>>, <<49208,169>> >>,
  <<<<32771,170>>, <<32774,170>>, <<32778,170>>, <<32783,170>>, <<32792,170>>, <<32799,170>>,
    <<32809,170>>, <<49208,170>>, <<32771,173>>, <<32774,173>>, <<32778,173>>, <<32783,173>>,
    <<32792,173>>, <<32799,173>>, <<32809,173>>, <<49208,173>> >> >>

Rows133 == <<
  <<<<137,0>>, <<138,0>>, <<140,0>>, <<141,0>>, <<144,0>>, <<145,0>>, <<147,0>>, <<150,0>>,
    <<156,0>>, <<159,0>>, <<163,0>>, <<166,0>>, <<171,0>>, <<174,0>>, <<181,0>>, <<190,0>> >>,
  <<<<49152,178>>, <<49152,181>>, <<49152,185>>, <<49152,186>>, <<49152,187>>, <<49152,189>>,
    <<49152,190>>, <<49152,196>>, <<49152,198>>, <<49152,228>>, <<49152,232>>, <<49152,233>>,
    <<148,0>>, <<149,0>>, <<151,0>>, <<152,0>> >>,
  <<<<32769,178>>, <<49174,178>>, <<32769,181>>, <<49174,181>>, <<32769,185>>, <<49174,185>>,
    <<32769,186>>, <<49174,186>>, <<32769,187>>, <<49174,187>>, <<32769,189>>, <<49174,189>>,
    <<32769,190>>, <<49174,190>>, <<32769,196>>, <<49174,196>> >>,
  <<<<32770,178>>, <<32777,178>>, <<32791,178>>, <<49192,178>>, <<32770,181>>, <<32777,181>>,
    <<32791,181>>, <<49192,181>>, <<32770,185>>, <<32777,185>>, <<32791,185>>, <<49192,185>>,
    <<32770,186>>, <<32777,186>>, <<32791,186>>, <<49192,186>> >>,
  <<<<32771,178>>, <<32774,178>>, <<32778,178>>, <<32783,178>>, <<32792,178>>, <<32799,178>>,
    <<32809,178>>, <<49208,178>>, <<32771,181>>, <<32774,181>>, <<32778,181>>, <<32783,181>>,
    <<32792,181>>, <<32799,181>>, <<32809,181>>, <<49208,181>> >>,
  <<<<32771,185>>, <<32774,185>>, <<32778,185>>, <<32783,185>>, <<32792,185>>, <<32799,185>>,
    <<32809,185>>, <<49208,185>>, <<32771,186>>, <<32774,186>>, <<32778,186>>, <<32783,186>>,
    <<32792,186>>, <<32799,186>>, <<32809,186>>, <<49208,186>> >>,
  <<<<32770,187>>, <<32777,187>>, <<32791,187>>, <<49192,187>>, <<32770,189>>, <<32777,189>>,
    <<32791,189>>, <<49192,189>>, <<32770,190>>, <<32777,190>>, <<32791,190>>, <<49192,190>>,
    <<32770,196>>, <<32777,196>>, <<32791,196>>, <<49192,196>> >> >>

Rows140 == <<
  <<<<32771,187>>, <<32774,187>>, <<32778,187>>, <<32783,187>>, <<32792,187>>, <<32799,187>>,
    <<32809,187>>, <<49208,187>>, <<32771,189>>, <<32774,189>>, <<32778,189>>, <<32783,189>>,
    <<32792,189>>, <<32799,189>>, <<32809,189>>, <<49208,189>> >>,
  <<<<32771,190>>, <<32774,190>>, <<32778,190>>, <<32783,190>>, <<32792,190>>, <<32799,190>>,
    <<32809,190>>, <<49208,190>>, <<32771,196>>, <<32774,196>>, <<32778,196>>, <<32783,196>>,
    <<32792,196>>, <<32799,196>>, <<32809,196>>, <<49208,196>> >>,
  <<<<32769,198>>, <<49174,198>>, <<32769,228>>, <<49174,228>>, <<32769,232>>, <<49174,232>>,
    <<32769,233>>, <<49174,233>>, <<49152,1>>, <<49152,135>>, <<49152,137>>, <<49152,138>>,
    <<49152,139>>, <<49152,140>>, <<49152,141>>, <<49152,143>> >>,
  <<<<32770,198>>, <<32777,198>>, <<32791,198>>, <<49192,198>>, <<32770,228>>, <<32777,228>>,
    <<32791,228>>, <<49192,228>>, <<32770,232>>, <<32777,232>>, <<32791,232>>, <<49192,232>>,
    <<32770,233>>, <<32777,233>>, <<32791,233>>, <<49192,233>> >>,
  <<<<32771,198>>, <<32774,198>>, <<32778,198>>, <<32783,198>>, <<32792,198>>, <<32799,198>>,
    <<32809,198>>, <<49208,198>>, <<32771,228>>, <<32774,228>>, <<32778,228>>, <<32783,228>>,
    <<32792,228>>, <<32799,228>>, <<32809,228>>, <<49208,228>> >>,
  <<<<32771,232>>, <<32774,232>>, <<32778,232>>, <<32783,232>>, <<32792,232>>, <<32799,232>>,
    <<32809,232>>, <<49208,232>>, <<32771,233>>, <<32774,233>>, <<32778,233>>, <<32783,233>>,
    <<32792,233>>, <<32799,233>>, <<32809,233>>, <<49208,233>> >>,
  <<<<32769,1>>, <<49174,1>>, <<32769,135>>, <<49174,135>>, <<32769,137>>, <<49174,137>>,
    <<32769,138>>, <<49174,138>>, <<32769,139>>, <<49174,139>>, <<32769,140>>, <<49174,140>>,
    <<32769,141>>, <<49174,141>>, <<32769,143>>, <<49174,143>> >> >>

Rows147 == <<
  <<<<32770,1>>, <<32777,1>>, <<32791,1>>, <<49192,1>>, <<32770,135>>, <<32777,135>>,
    <<32791,135>>, <<49192,135>>, <<32770,137>>, <<32777,137>>, <<32791,137>>, <<49192,137>>,
    <<32770,138>>, <<32777,138>>, <<32791,138>>, <<49192,138>> >>,
  <<<<32771,1>>, <<32774,1>>, <<32778,1>>, <<32783,1>>, <<32792,1>>, <<32799,1>>, <<32809,1>>,
    <<49208,1>>, <<32771,135>>, <<32774,135>>, <<32778,135>>, <<32783,135>>, <<32792,135>>,
    <<32799,135>>, <<32809,135>>, <<49208,135>> >>,
  <<<<32771,137>>, <<32774,137>>, <<32778,137>>, <<32783,137>>, <<32792,137>>, <<32799,137>>,
    <<32809,137>>, <<49208,137>>, <<32771,138>>, <<32774,138>>, <<32778,138>>, <<32783,138>>,
    <<32792,138>>, <<32799,138>>, <<32809,138>>, <<49208,138>> >>,
  <<<<32770,139>>, <<32777,139>>, <<32791,139>>, <<49192,139>>, <<32770,140>>, <<32777,140>>,
    <<32791,140>>, <<49192,140>>, <<32770,141>>, <<32777,141>>, <<32791,141>>, <<49192,141>>,
    <<32770,143>>, <<32777,143>>, <<32791,143>>, <<49192,143>> >>,
  <<<<32771,139>>, <<32774,139>>, <<32778,139>>, <<32783,139>>, <<32792,139>>, <<32799,139>>,
    <<32809,139>>, <<49208,139>>, <<32771,140>>, <<32774,140>>, <<32778,140>>, <<32783,140>>,
    <<32792,140>>, <<32799,140>>, <<32809,140>>, <<49208,140>> >>,
  <<<<32771,141>>, <<32774,141>>, <<32778,141>>, <<32783,141>>, <<32792,141>>, <<32799,141>>,
    <<32809,141>>, <<49208,141>>, <<32771,143>>, <<32774,143>>, <<32778,143>>, <<32783,143>>,
    <<32792,143>>, <<32799,143>>, <<32809,143>>, <<49208,143>> >>,
  <<<<157,0>>, <<158,0>>, <<160,0>>, <<161,0>>, <<164,0>>, <<165,0>>, <<167,0>>, <<168,0>>,
    <<172,0>>, <<173,0>>, <<175,0>>, <<177,0>>, <<182,0>>, <<185,0>>, <<191,0>>, <<207,0>> >> >>

Rows154 == <<
  <<<<49152,147>>, <<49152,149>>, <<49152,150>>, <<49152,151>>, <<49152,152>>, <<49152,155>>,
    <<49152,157>>, <<49152,158>>, <<49152,165>>, <<49152,166>>, <<49152,168>>, <<49152,174>>,
    <<49152,175>>, <<49152,180>>, <<49152,182>>, <<49152,183>> >>,
  <<<<32769,147>>, <<49174,147>>, <<32769,149>>, <<49174,149>>, <<32769,150>>, <<49174,150>>,
    <<32769,151>>, <<49174,151>>, <<32769,152>>, <<49174,152>>, <<32769,155>>, <<49174,155>>,
    <<32769,157>>, <<49174,157>>, <<32769,158>>, <<49174,158>> >>,
  <<<<32770,147>>, <<32777,147>>, <<32791,147>>, <<49192,147>>, <<32770,149>>, <<32777,149>>,
    <<32791,149>>, <<49192,149>>, <<32770,150>>, <<32777,150>>, <<32791,150>>, <<49192,150>>,
    <<32770,151>>, <<32777,151>>, <<32791,151>>, <<49192,151>> >>,
  <<<<32771,147>>, <<32774,147>>, <<32778,147>>, <<32783,147>>, <<32792,147>>, <<32799,147>>,
    <<32809,147>>, <<49208,147>>, <<32771,149>>, <<32774,149>>, <<32778,149>>, <<32783,149>>,
    <<32792,149>>, <<32799,149>>, <<32809,149>>, <<49208,149>> >>,
  <<<<32771,150>>, <<32774,150>>, <<32778,150>>, <<32783,150>>, <<32792,150>>, <<32799,150>>,
    <<32809,150>>, <<49208,150>>, <<32771,151>>, <<32774,151>>, <<32778,151>>, <<32783,151>>,
    <<32792,151>>, <<32799,151>>, <<32809,151>>, <<49208,151>> >>,
  <<<<32770,152>>, <<32777,152>>, <<32791,152>>, <<49192,152>>, <<32770,155>>, <<32777,155>>,
    <<32791,155>>, <<49192,155>>, <<32770,157>>, <<32777,157>>, <<32791,157>>, <<49192,157>>,
    <<32770,158>>, <<32777,158>>, <<32791,158>>, <<49192,158>> >>,
  <<<<32771,152>>, <<32774,152>>, <<32778,152>>, <<32783,152>>, <<32792,152>>, <<32799,152>>,
    <<32809,152>>, <<49208,152>>, <<32771,155>>, <<32774,155>>, <<32778,155>>, <<32783,155>>,
    <<32792,155>>, <<32799,155>>, <<32809,155>>, <<49208,155>> >> >>

Rows161 == <<
  <<<<32771,157>>, <<32774,157>>, <<32778,157>>, <<32783,157>>, <<32792,157>>, <<32799,157>>,
    <<32809,157>>, <<49208,157>>, <<32771,158>>, <<32774,158>>, <<32778,158>>, <<32783,158>>,
    <<32792,158>>, <<32799,158>>, <<32809,158>>, <<49208,158>> >>,
  <<<<32769,165>>, <<49174,165>>, <<32769,166>>, <<49174,166>>, <<32769,168>>, <<49174,168>>,
    <<32769,174>>, <<49174,174>>, <<32769,175>>, <<49174,175>>, <<32769,180>>, <<49174,180>>,
    <<32769,182>>, <<49174,182>>, <<32769,183>>, <<49174,183>> >>,
  <<<<32770,165>>, <<32777,165>>, <<32791,165>>, <<49192,165>>, <<32770,166>>, <<32777,166>>,
    <<32791,166>>, <<49192,166>>, <<32770,168>>, <<32777,168>>, <<32791,168>>, <<49192,168>>,
    <<32770,174>>, <<32777,174>>, <<32791,174>>, <<49192,174>> >>,
  <<<<32771,165>>, <<32774,165>>, <<32778,165>>, <<32783,165>>, <<32792,165>>, <<32799,165>>,
    <<32809,165>>, <<49208,165>>, <<32771,166>>, <<32774,166>>, <<32778,166>>, <<32783,166>>,
    <<32792,166>>, <<32799,166>>, <<32809,166>>, <<49208,166>> >>,
  <<<<32771,168>>, <<32774,168>>, <<32778,168>>, <<32783,168>>, <<32792,168>>, <<32799,168>>,
    <<32809,168>>, <<49208,168>>, <<32771,174>>, <<32774,174>>, <<32778,174>>, <<32783,174>>,
    <<32792,174>>, <<32799,174>>, <<32809,174>>, <<49208,174>> >>,
  <<<<32770,175>>, <<32777,175>>, <<32791,175>>, <<49192,175>>, <<32770,180>>, <<32777,180>>,
    <<32791,180>>, <<49192,180>>, <<32770,182>>, <<32777,182>>, <<32791,182>>, <<49192,182>>,
    <<32770,183>>, <<32777,183>>, <<32791,183>>, <<49192,183>> >>,
  <<<<32771,175>>, <<32774,175>>, <<32778,175>>, <<32783,175>>, <<32792,175>>, <<32799,175>>,
    <<32809,175>>, <<49208,175>>, <<32771,180>>, <<32774,180>>, <<32778,180>>, <<32783,180>>,
    <<32792,180>>, <<32799,180>>, <<32809,180>>, <<49208,180>> >> >>

Rows168 == <<
  <<<<32771,182>>, <<32774,182>>, <<32778,182>>, <<32783,182>>, <<32792,182>>, <<32799,182>>,
    <<32809,182>>, <<49208,182>>, <<32771,183>>, <<32774,183>>, <<32778,183>>, <<32783,183>>,
    <<32792,183>>, <<32799,183>>, <<32809,183>>, <<49208,183>> >>,
  <<<<49152,188>>, <<49152,191>>, <<49152,197>>, <<49152,231>>, <<49152,239>>, <<176,0>>,
    <<178,0>>, <<179,0>>, <<183,0>>, <<184,0>>, <<186,0>>, <<187,0>>, <<192,0>>, <<199,0>>,
    <<208,0>>, <<223,0>> >>,
  <<<<32769,188>>, <<49174,188>>, <<32769,191>>, <<49174,191>>, <<32769,197>>, <<49174,197>>,
    <<32769,231>>, <<49174,231>>, <<32769,239>>, <<49174,239>>, <<49152,9>>, <<49152,142>>,
    <<49152,144>>, <<49152,145>>, <<49152,148>>, <<49152,159>> >>,
  <<<<32770,188>>, <<32777,188>>, <<32791,188>>, <<49192,188>>, <<32770,191>>, <<32777,191>>,
    <<32791,191>>, <<49192,191>>, <<32770,197>>, <<32777,197>>, <<32791,197>>, <<49192,197>>,
    <<32770,231>>, <<32777,231>>, <<32791,231>>, <<49192,231>> >>,
  <<<<32771,188>>, <<32774,188>>, <<32778,188>>, <<32783,188>>, <<32792,188>>, <<32799,188>>,
    <<32809,188>>, <<49208,188>>, <<32771,191>>, <<32774,191>>, <<32778,191>>, <<32783,191>>,
    <<32792,191>>, <<32799,191>>, <<32809,191>>, <<49208,191>> >>,
  <<<<32771,197>>, <<32774,197>>, <<32778,197>>, <<32783,197>>, <<32792,197>>, <<32799,197>>,
    <<32809,197>>, <<49208,197>>, <<32771,231>>, <<32774,231>>, <<32778,231>>, <<32783,231>>,
    <<32792,231>>, <<32799,231>>, <<32809,231>>, <<49208,231>> >>,
  <<<<32770,239>>, <<32777,239>>, <<32791,239>>, <<49192,239>>, <<32769,9>>, <<49174,9>>,
    <<32769,142>>, <<49174,142>>, <<32769,144>>, <<49174,144>>, <<32769,145>>, <<49174,145>>,
    <<32769,148>>, <<49174,148>>, <<32769,159>>, <<49174,159>> >> >>

Rows175 == <<
  <<<<32771,239>>, <<32774,239>>, <<32778,239>>, <<32783,239>>, <<32792,239>>, <<32799,239>>,
    <<32809,239>>, <<49208,239>>, <<32770,9>>, <<32777,9>>, <<32791,9>>, <<49192,9>>,
    <<32770,142>>, <<32777,142>>, <<32791,142>>, <<49192,142>> >>,
  <<<<32771,9>>, <<32774,9>>, <<32778,9>>, <<32783,9>>, <<32792,9>>, <<32799,9>>, <<32809,9>>,
    <<49208,9>>, <<32771,142>>, <<32774,142>>, <<32778,142>>, <<32783,142>>, <<32792,142>>,
    <<32799,142>>, <<32809,142>>, <<49208,142>> >>,
  <<<<32770,144>>, <<32777,144>>, <<32791,144>>, <<49192,144>>, <<32770,145>>, <<32777,145>>,
    <<32791,145>>, <<49192,145>>, <<32770,148>>, <<32777,148>>, <<32791,148>>, <<49192,148>>,
    <<32770,159>>, <<32777,159>>, <<32791,159>>, <<49192,159>> >>,
  <<<<32771,144>>, <<32774,144>>, <<32778,144>>, <<32783,144>>, <<32792,144>>, <<32799,144>>,
    <<32809,144>>, <<49208,144>>, <<32771,145>>, <<32774,145>>, <<32778,145>>, <<32783,145>>,
    <<32792,145>>, <<32799,145>>, <<32809,145>>, <<49208,145>> >>,
  <<<<32771,148>>, <<32774,148>>, <<32778,148>>, <<32783,148>>, <<32792,148>>, <<32799,148>>,
    <<32809,148>>, <<49208,148>>, <<32771,159>>, <<32774,159>>, <<32778,159>>, <<32783,159>>,
    <<32792,159>>, <<32799,159>>, <<32809,159>>, <<49208,159>> >>,
  <<<<49152,171>>, <<49152,206>>, <<49152,215>>, <<49152,225>>, <<49152,236>>, <<49152,237>>,
    <<188,0>>, <<189,0>>, <<193,0>>, <<196,0>>, <<200,0>>, <<203,0>>, <<209,0>>, <<216,0>>,
    <<224,0>>, <<238,0>> >>,
  <<<<32769,171>>, <<49174,171>>, <<32769,206>>, <<49174,206>>, <<32769,215>>, <<49174,215>>,
    <<32769,225>>, <<49174,225>>, <<32769,236>>, <<49174,236>>, <<32769,237>>, <<49174,237>>,
    <<49152,199>>, <<49152,207>>, <<49152,234>>, <<49152,235>> >> >>

Rows182 == <<
  <<<<32770,171>>, <<32777,171>>, <<32791,171>>, <<49192,171>>, <<32770,206>>, <<32777,206>>,
    <<32791,206>>, <<49192,206>>, <<32770,215>>, <<32777,215>>, <<32791,215>>, <<49192,215>>,
    <<32770,225>>, <<32777,225>>, <<32791,225>>, <<49192,225>> >>,
  <<<<32771,171>>, <<32774,171>>, <<32778,171>>, <<32783,171>>, <<32792,171>>, <<32799,171>>,
    <<32809,171>>, <<49208,171>>, <<32771,206>>, <<32774,206>>, <<32778,206>>, <<32783,206>>,
    <<32792,206>>, <<32799,206>>, <<32809,206>>, <<49208,206>> >>,
  <<<<32771,215>>, <<32774,215>>, <<32778,215>>, <<32783,215>>, <<32792,215>>, <<32799,215>>,
    <<32809,215>>, <<49208,215>>, <<32771,225>>, <<32774,225>>, <<32778,225>>, <<32783,225>>,
    <<32792,225>>, <<32799,225>>, <<32809,225>>, <<49208,225>> >>,
  <<<<32770,236>>, <<32777,236>>, <<32791,236>>, <<49192,236>>, <<32770,237>>, <<32777,237>>,
    <<32791,237>>, <<49192,237>>, <<32769,199>>, <<49174,199>>, <<32769,207>>, <<49174,207>>,
    <<32769,234>>, <<49174,234>>, <<32769,235>>, <<49174,235>> >>,
  <<<<32771,236>>, <<32774,236>>, <<32778,236>>, <<32783,236>>, <<32792,236>>, <<32799,236>>,
    <<32809,236>>, <<49208,236>>, <<32771,237>>, <<32774,237>>, <<32778,237>>, <<32783,237>>,
    <<32792,237>>, <<32799,237>>, <<32809,237>>, <<49208,237>> >>,
  <<<<32770,199>>, <<32777,199>>, <<32791,199>>, <<49192,199>>, <<32770,207>>, <<32777,207>>,
    <<32791,207>>, <<49192,207>>, <<32770,234>>, <<32777,234>>, <<32791,234>>, <<49192,234>>,
    <<32770,235>>, <<32777,235>>, <<32791,235>>, <<49192,235>> >>,
  <<<<32771,199>>, <<32774,199>>, <<32778,199>>, <<32783,199>>, <<32792,199>>, <<32799,199>>,
    <<32809,199>>, <<49208,199>>, <<32771,207>>, <<32774,207>>, <<32778,207>>, <<32783,207>>,
    <<32792,207>>, <<32799,207>>, <<32809,207>>, <<49208,207>> >> >>

Rows189 == <<
  <<<<32771,234>>, <<32774,234>>, <<32778,234>>, <<32783,234>>, <<32792,234>>, <<32799,234>>,
    <<32809,234>>, <<49208,234>>, <<32771,235>>, <<32774,235>>, <<32778,235>>, <<32783,235>>,
    <<32792,235>>, <<32799,235>>, <<32809,235>>, <<49208,235>> >>,
  <<<<194,0>>, <<195,0>>, <<197,0>>, <<198,0>>, <<201,0>>, <<202,0>>, <<204,0>>, <<205,0>>,
    <<210,0>>, <<213,0>>, <<217,0>>, <<220,0>>, <<225,0>>, <<231,0>>, <<239,0>>, <<246,0>> >>,
  <<<<49152,192>>, <<49152,193>>, <<49152,200>>, <<49152,201>>, <<49152,202>>, <<49152,205>>,
    <<49152,210>>, <<49152,213>>, <<49152,218>>, <<49152,219>>, <<49152,238>>, <<49152,240>>,
    <<49152,242>>, <<49152,243>>, <<49152,255>>, <<206,0>> >>,
  <<<<32769,192>>, <<49174,192>>, <<32769,193>>, <<49174,193>>, <<32769,200>>, <<49174,200>>,
    <<32769,201>>, <<49174,201>>, <<32769,202>>, <<49174,202>>, <<32769,205>>, <<49174,205>>,
    <<32769,210>>, <<49174,210>>, <<32769,213>>, <<49174,213>> >>,
  <<<<32770,192>>, <<32777,192>>, <<32791,192>>, <<49192,192>>, <<32770,193>>, <<32777,193>>,
    <<32791,193>>, <<49192,193>>, <<32770,200>>, <<32777,200>>, <<32791,200>>, <<49192,200>>,
    <<32770,201>>, <<32777,201>>, <<32791,201>>, <<49192,201>> >>,
  <<<<32771,192>>, <<32774,192>>, <<32778,192>>, <<32783,192>>, <<32792,192>>, <<32799,192>>,
    <<32809,192>>, <<49208,192>>, <<32771,193>>, <<32774,193>>, <<32778,193>>, <<32783,193>>,
    <<32792,193>>, <<32799,193>>, <<32809,193>>, <<49208,193>> >>,
  <<<<32771,200>>, <<32774,200>>, <<32778,200>>, <<32783,200>>, <<32792,200>>, <<32799,200>>,
    <<32809,200>>, <<49208,200>>, <<32771,201>>, <<32774,201>>, <<32778,201>>, <<32783,201>>,
    <<32792,201>>, <<32799,201>>, <<32809,201>>, <<49208,201>> >> >>

Rows196 == <<
  <<<<32770,202>>, <<32777,202>>, <<32791,202>>, <<49192,202>>, <<32770,205>>, <<32777,205>>,
    <<32791,205>>, <<49192,205>>, <<32770,210>>, <<32777,210>>, <<32791,210>>, <<49192,210>>,
    <<32770,213>>, <<32777,213>>, <<32791,213>>, <<49192,213>> >>,
  <<<<32771,202>>, <<32774,202>>, <<32778,202>>, <<32783,202>>, <<32792,202>>, <<32799,202>>,
    <<32809,202>>, <<49208,202>>, <<32771,205>>, <<32774,205>>, <<32778,205>>, <<32783,205>>,
    <<32792,205>>, <<32799,205>>, <<32809,205>>, <<49208,205>> >>,
  <<<<32771,210>>, <<32774,210>>, <<32778,210>>, <<32783,210>>, <<32792,210>>, <<32799,210>>,
    <<32809,210>>, <<49208,210>>, <<32771,213>>, <<32774,213>>, <<32778,213>>, <<32783,213>>,
    <<32792,213>>, <<32799,213>>, <<32809,213>>, <<49208,213>> >>,
  <<<<32769,218>>, <<49174,218>>, <<32769,219>>, <<49174,219>>, <<32769,238>>, <<49174,238>>,
    <<32769,240>>, <<49174,240>>, <<32769,242>>, <<49174,242>>, <<32769,243>>, <<49174,243>>,
    <<32769,255>>, <<49174,255>>, <<49152,203>>, <<49152,204>> >>,
  <<<<32770,218>>, <<32777,218>>, <<32791,218>>, <<49192,218>>, <<32770,219>>, <<32777,219>>,
    <<32791,219>>, <<49192,219>>, <<32770,238>>, <<32777,238>>, <<32791,238>>, <<49192,238>>,
    <<32770,240>>, <<32777,240>>, <<32791,240>>, <<49192,240>> >>,
  <<<<32771,218>>, <<32774,218>>, <<32778,218>>, <<32783,218>>, <<32792,218>>, <<32799,218>>,
    <<32809,218>>, <<49208,218>>, <<32771,219>>, <<32774,219>>, <<32778,219>>, <<32783,219>>,
    <<32792,219>>, <<32799,219>>, <<32809,219>>, <<49208,219>> >>,
  <<<<32771,238>>, <<32774,238>>, <<32778,238>>, <<32783,238>>, <<32792,238>>, <<32799,238>>,
    <<32809,238>>, <<49208,238>>, <<32771,240>>, <<32774,240>>, <<32778,240>>, <<32783,240>>,
    <<32792,240>>, <<32799,240>>, <<32809,240>>, <<49208,240>> >> >>

Rows203 == <<
  <<<<32770,242>>, <<32777,242>>, <<32791,242>>, <<49192,242>>, <<32770,243>>, <<32777,243>>,
    <<32791,243>>, <<49192,243>>, <<32770,255>>, <<32777,255>>, <<32791,255>>, <<49192,255>>,
    <<32769,203>>, <<49174,203>>, <<32769,204>>, <<49174,204>> >>,
  <<<<32771,242>>, <<32774,242>>, <<32778,242>>, <<32783,242>>, <<32792,242>>, <<32799,242>>,
    <<32809,242>>, <<49208,242>>, <<32771,243>>, <<32774,243>>, <<32778,243>>, <<32783,243>>,
    <<32792,243>>, <<32799,243>>, <<32809,243>>, <<49208,243>> >>,
  <<<<32771,255>>, <<32774,255>>, <<32778,255>>, <<32783,255>>, <<32792,255>>, <<32799,255>>,
    <<32809,255>>, <<49208,255>>, <<32770,203>>, <<32777,203>>, <<32791,203>>, <<49192,203>>,
    <<32770,204>>, <<32777,204>>, <<32791,204>>, <<49192,204>> >>,
  <<<<32771,203>>, <<32774,203>>, <<32778,203>>, <<32783,203>>, <<32792,203>>, <<32799,203>>,
    <<32809,203>>, <<49208,203>>, <<32771,204>>, <<32774,204>>, <<32778,204>>, <<32783,204>>,
    <<32792,204>>, <<32799,204>>, <<32809,204>>, <<49208,204>> >>,
  <<<<211,0>>, <<212,0>>, <<214,0>>, <<215,0>>, <<218,0>>, <<219,0>>, <<221,0>>, <<222,0>>,
    <<226,0>>, <<228,0>>, <<232,0>>, <<235,0>>, <<240,0>>, <<243,0>>, <<247,0>>, <<250,0>> >>,
  <<<<49152,211>>, <<49152,212>>, <<49152,214>>, <<49152,221>>, <<49152,222>>, <<49152,223>>,
    <<49152,241>>, <<49152,244>>, <<49152,245>>, <<49152,246>>, <<49152,247>>, <<49152,248>>,
    <<49152,250>>, <<49152,251>>, <<49152,252>>, <<49152,253>> >>,
  <<<<32769,211>>, <<49174,211>>, <<32769,212>>, <<49174,212>>, <<32769,214>>, <<49174,214>>,
    <<32769,221>>, <<49174,221>>, <<32769,222>>, <<49174,222>>, <<32769,223>>, <<49174,223>>,
    <<32769,241>>, <<49174,241>>, <<32769,244>>, <<49174,244>> >> >>

Rows210 == <<
  <<<<32770,211>>, <<32777,211>>, <<32791,211>>, <<49192,211>>, <<32770,212>>, <<32777,212>>,
    <<32791,212>>, <<49192,212>>, <<32770,214>>, <<32777,214>>, <<32791,214>>, <<49192,214>>,
    <<32770,221>>, <<32777,221>>, <<32791,221>>, <<49192,221>> >>,
  <<<<32771,211>>, <<32774,211>>, <<32778,211>>, <<32783,211>>, <<32792,211>>, <<32799,211>>,
    <<32809,211>>, <<49208,211>>, <<32771,212>>, <<32774,212>>, <<32778,212>>, <<32783,212>>,
    <<32792,212>>, <<32799,212>>, <<32809,212>>, <<49208,212>> >>,
  <<<<32771,214>>, <<32774,214>>, <<32778,214>>, <<32783,214>>, <<32792,214>>, <<32799,214>>,
    <<32809,214>>, <<49208,214>>, <<32771,221>>, <<32774,221>>, <<32778,221>>, <<32783,221>>,
    <<32792,221>>, <<32799,221>>, <<32809,221>>, <<49208,221>> >>,
  <<<<32770,222>>, <<32777,222>>, <<32791,222>>, <<49192,222>>, <<32770,223>>, <<32777,223>>,
    <<32791,223>>, <<49192,223>>, <<32770,241>>, <<32777,241>>, <<32791,241>>, <<49192,241>>,
    <<32770,244>>, <<32777,244>>, <<32791,244>>, <<49192,244>> >>,
  <<<<32771,222>>, <<32774,222>>, <<32778,222>>, <<32783,222>>, <<32792,222>>, <<32799,222>>,
    <<32809,222>>, <<49208,222>>, <<32771,223>>, <<32774,223>>, <<32778,223>>, <<32783,223>>,
    <<32792,223>>, <<32799,223>>, <<32809,223>>, <<49208,223>> >>,
  <<<<32771,241>>, <<32774,241>>, <<32778,241>>, <<32783,241>>, <<32792,241>>, <<32799,241>>,
    <<32809,241>>, <<49208,241>>, <<32771,244>>, <<32774,244>>, <<32778,244>>, <<32783,244>>,
    <<32792,244>>, <<32799,244>>, <<32809,244>>, <<49208,244>> >>,
  <<<<32769,245>>, <<49174,245>>, <<32769,246>>, <<49174,246>>, <<32769,247>>, <<49174,247>>,
    <<32769,248>>, <<49174,248>>, <<32769,250>>, <<49174,250>>, <<32769,251>>, <<49174,251>>,
    <<32769,252>>, <<49174,252>>, <<32769,253>>, <<49174,253>> >> >>

Rows217 == <<
  <<<<32770,245>>, <<32777,245>>, <<32791,245>>, <<49192,245>>, <<32770,246>>, <<32777,246>>,
    <<32791,246>>, <<49192,246>>, <<32770,247>>, <<32777,247>>, <<32791,247>>, <<49192,247>>,
    <<32770,248>>, <<32777,248>>, <<32791,248>>, <<49192,248>> >>,
  <<<<32771,245>>, <<32774,245>>, <<32778,245>>, <<32783,245>>, <<32792,245>>, <<32799,245>>,
    <<32809,245>>, <<49208,245>>, <<32771,246>>, <<32774,246>>, <<32778,246>>, <<32783,246>>,
    <<32792,246>>, <<32799,246>>, <<32809,246>>, <<49208,246>> >>,
  <<<<32771,247>>, <<32774,247>>, <<32778,247>>, <<32783,247>>, <<32792,247>>, <<32799,247>>,
    <<32809,247>>, <<49208,247>>, <<32771,248>>, <<32774,248>>, <<32778,248>>, <<32783,248>>,
    <<32792,248>>, <<32799,248>>, <<32809,248>>, <<49208,248>> >>,
  <<<<32770,250>>, <<32777,250>>, <<32791,250>>, <<49192,250>>, <<32770,251>>, <<32777,251>>,
    <<32791,251>>, <<49192,251>>, <<32770,252>>, <<32777,252>>, <<32791,252>>, <<49192,252>>,
    <<32770,253>>, <<32777,253>>, <<32791,253>>, <<49192,253>> >>,
  <<<<32771,250>>, <<32774,250>>, <<32778,250>>, <<32783,250>>, <<32792,250>>, <<32799,250>>,
    <<32809,250>>, <<49208,250>>, <<32771,251>>, <<32774,251>>, <<32778,251>>, <<32783,251>>,
    <<32792,251>>, <<32799,251>>, <<32809,251>>, <<49208,251>> >>,
  <<<<32771,252>>, <<32774,252>>, <<32778,252>>, <<32783,252>>, <<32792,252>>, <<32799,252>>,
    <<32809,252>>, <<49208,252>>, <<32771,253>>, <<32774,253>>, <<32778,253>>, <<32783,253>>,
    <<32792,253>>, <<32799,253>>, <<32809,253>>, <<49208,253>> >>,
  <<<<49152,254>>, <<227,0>>, <<229,0>>, <<230,0>>, <<233,0>>, <<234,0>>, <<236,0>>,
    <<237,0>>, <<241,0>>, <<242,0>>, <<244,0>>, <<245,0>>, <<248,0>>, <<249,0>>, <<251,0>>,
    <<252,0>> >> >>

Rows224 == <<
  <<<<32769,254>>, <<49174,254>>, <<49152,2>>, <<49152,3>>, <<49152,4>>, <<49152,5>>,
    <<49152,6>>, <<49152,7>>, <<49152,8>>, <<49152,11>>, <<49152,12>>, <<49152,14>>,
    <<49152,15>>, <<49152,16>>, <<49152,17>>, <<49152,18>> >>,
  <<<<32770,254>>, <<32777,254>>, <<32791,254>>, <<49192,254>>, <<32769,2>>, <<49174,2>>,
    <<32769,3>>, <<49174,3>>, <<32769,4>>, <<49174,4>>, <<32769,5>>, <<49174,5>>, <<32769,6>>,
    <<49174,6>>, <<32769,7>>, <<49174,7>> >>,
  <<<<32771,254>>, <<32774,254>>, <<32778,254>>, <<32783,254>>, <<32792,254>>, <<32799,254>>,
    <<32809,254>>, <<49208,254>>, <<32770,2>>, <<32777,2>>, <<32791,2>>, <<49192,2>>,
    <<32770,3>>, <<32777,3>>, <<32791,3>>, <<49192,3>> >>,
  <<<<32771,2>>, <<32774,2>>, <<32778,2>>, <<32783,2>>, <<32792,2>>, <<32799,2>>, <<32809,2>>,
    <<49208,2>>, <<32771,3>>, <<32774,3>>, <<32778,3>>, <<32783,3>>, <<32792,3>>, <<32799,3>>,
    <<32809,3>>, <<49208,3>> >>,
  <<<<32770,4>>, <<32777,4>>, <<32791,4>>, <<49192,4>>, <<32770,5>>, <<32777,5>>, <<32791,5>>,
    <<49192,5>>, <<32770,6>>, <<32777,6>>, <<32791,6>>, <<49192,6>>, <<32770,7>>, <<32777,7>>,
    <<32791,7>>, <<49192,7>> >>,
  <<<<32771,4>>, <<32774,4>>, <<32778,4>>, <<32783,4>>, <<32792,4>>, <<32799,4>>, <<32809,4>>,
    <<49208,4>>, <<32771,5>>, <<32774,5>>, <<32778,5>>, <<32783,5>>, <<32792,5>>, <<32799,5>>,
    <<32809,5>>, <<49208,5>> >>,
  <<<<32771,6>>, <<32774,6>>, <<32778,6>>, <<32783,6>>, <<32792,6>>, <<32799,6>>, <<32809,6>>,
    <<49208,6>>, <<32771,7>>, <<32774,7>>, <<32778,7>>, <<32783,7>>, <<32792,7>>, <<32799,7>>,
    <<32809,7>>, <<49208,7>> >> >>

Rows231 == <<
  <<<<32769,8>>, <<49174,8>>, <<32769,11>>, <<49174,11>>, <<32769,12>>, <<49174,12>>,
    <<32769,14>>, <<49174,14>>, <<32769,15>>, <<49174,15>>, <<32769,16>>, <<49174,16>>,
    <<32769,17>>, <<49174,17>>, <<32769,18>>, <<49174,18>> >>,
  <<<<32770,8>>, <<32777,8>>, <<32791,8>>, <<49192,8>>, <<32770,11>>, <<32777,11>>,
    <<32791,11>>, <<49192,11>>, <<32770,12>>, <<32777,12>>, <<32791,12>>, <<49192,12>>,
    <<32770,14>>, <<32777,14>>, <<32791,14>>, <<49192,14>> >>,
  <<<<32771,8>>, <<32774,8>>, <<32778,8>>, <<32783,8>>, <<32792,8>>, <<32799,8>>, <<32809,8>>,
    <<49208,8>>, <<32771,11>>, <<32774,11>>, <<32778,11>>, <<32783,11>>, <<32792,11>>,
    <<32799,11>>, <<32809,11>>, <<49208,11>> >>,
  <<<<32771,12>>, <<32774,12>>, <<32778,12>>, <<32783,12>>, <<32792,12>>, <<32799,12>>,
    <<32809,12>>, <<49208,12>>, <<32771,14>>, <<32774,14>>, <<32778,14>>, <<32783,14>>,
    <<32792,14>>, <<32799,14>>, <<32809,14>>, <<49208,14>> >>,
  <<<<32770,15>>, <<32777,15>>, <<32791,15>>, <<49192,15>>, <<32770,16>>, <<32777,16>>,
    <<32791,16>>, <<49192,16>>, <<32770,17>>, <<32777,17>>, <<32791,17>>, <<49192,17>>,
    <<32770,18>>, <<32777,18>>, <<32791,18>>, <<49192,18>> >>,
  <<<<32771,15>>, <<32774,15>>, <<32778,15>>, <<32783,15>>, <<32792,15>>, <<32799,15>>,
    <<32809,15>>, <<49208,15>>, <<32771,16>>, <<32774,16>>, <<32778,16>>, <<32783,16>>,
    <<32792,16>>, <<32799,16>>, <<32809,16>>, <<49208,16>> >>,
  <<<<32771,17>>, <<32774,17>>, <<32778,17>>, <<32783,17>>, <<32792,17>>, <<32799,17>>,
    <<32809,17>>, <<49208,17>>, <<32771,18>>, <<32774,18>>, <<32778,18>>, <<32783,18>>,
    <<32792,18>>, <<32799,18>>, <<32809,18>>, <<49208,18>> >> >>

Rows238 == <<
  <<<<49152,19>>, <<49152,20>>, <<49152,21>>, <<49152,23>>, <<49152,24>>, <<49152,25>>,
    <<49152,26>>, <<49152,27>>, <<49152,28>>, <<49152,29>>, <<49152,30>>, <<49152,31>>,
    <<49152,127>>, <<49152,220>>, <<49152,249>>, <<253,0>> >>,
  <<<<32769,19>>, <<49174,19>>, <<32769,20>>, <<49174,20>>, <<32769,21>>, <<49174,21>>,
    <<32769,23>>, <<49174,23>>, <<32769,24>>, <<49174,24>>, <<32769,25>>, <<49174,25>>,
    <<32769,26>>, <<49174,26>>, <<32769,27>>, <<49174,27>> >>,
  <<<<32770,19>>, <<32777,19>>, <<32791,19>>, <<49192,19>>, <<32770,20>>, <<32777,20>>,
    <<32791,20>>, <<49192,20>>, <<32770,21>>, <<32777,21>>, <<32791,21>>, <<49192,21>>,
    <<32770,23>>, <<32777,23>>, <<32791,23>>, <<49192,23>> >>,
  <<<<32771,19>>, <<32774,19>>, <<32778,19>>, <<32783,19>>, <<32792,19>>, <<32799,19>>,
    <<32809,19>>, <<49208,19>>, <<32771,20>>, <<32774,20>>, <<32778,20>>, <<32783,20>>,
    <<32792,20>>, <<32799,20>>, <<32809,20>>, <<49208,20>> >>,
  <<<<32771,21>>, <<32774,21>>, <<32778,21>>, <<32783,21>>, <<32792,21>>, <<32799,21>>,
    <<32809,21>>, <<49208,21>>, <<32771,23>>, <<32774,23>>, <<32778,23>>, <<32783,23>>,
    <<32792,23>>, <<32799,23>>, <<32809,23>>, <<49208,23>> >>,
  <<<<32770,24>>, <<32777,24>>, <<32791,24>>, <<49192,24>>, <<32770,25>>, <<32777,25>>,
    <<32791,25>>, <<49192,25>>, <<32770,26>>, <<32777,26>>, <<32791,26>>, <<49192,26>>,
    <<32770,27>>, <<32777,27>>, <<32791,27>>, <<49192,27>> >>,
  <<<<32771,24>>, <<32774,24>>, <<32778,24>>, <<32783,24>>, <<32792,24>>, <<32799,24>>,
    <<32809,24>>, <<49208,24>>, <<32771,25>>, <<32774,25>>, <<32778,25>>, <<32783,25>>,
    <<32792,25>>, <<32799,25>>, <<32809,25>>, <<49208,25>> >> >>

Rows245 == <<
  <<<<32771,26>>, <<32774,26>>, <<32778,26>>, <<32783,26>>, <<32792,26>>, <<32799,26>>,
    <<32809,26>>, <<49208,26>>, <<32771,27>>, <<32774,27>>, <<32778,27>>, <<32783,27>>,
    <<32792,27>>, <<32799,27>>, <<32809,27>>, <<49208,27>> >>,
  <<<<32769,28>>, <<49174,28>>, <<32769,29>>, <<49174,29>>, <<32769,30>>, <<49174,30>>,
    <<32769,31>>, <<49174,31>>, <<32769,127>>, <<49174,127>>, <<32769,220>>, <<49174,220>>,
    <<32769,249>>, <<49174,249>>, <<254,0>>, <<255,0>> >>,
  <<<<32770,28>>, <<32777,28>>, <<32791,28>>, <<49192,28>>, <<32770,29>>, <<32777,29>>,
    <<32791,29>>, <<49192,29>>, <<32770,30>>, <<32777,30>>, <<32791,30>>, <<49192,30>>,
    <<32770,31>>, <<32777,31>>, <<32791,31>>, <<49192,31>> >>,
  <<<<32771,28>>, <<32774,28>>, <<32778,28>>, <<32783,28>>, <<32792,28>>, <<32799,28>>,
    <<32809,28>>, <<49208,28>>, <<32771,29>>, <<32774,29>>, <<32778,29>>, <<32783,29>>,
    <<32792,29>>, <<32799,29>>, <<32809,29>>, <<49208,29>> >>,
  <<<<32771,30>>, <<32774,30>>, <<32778,30>>, <<32783,30>>, <<32792,30>>, <<32799,30>>,
    <<32809,30>>, <<49208,30>>, <<32771,31>>, <<32774,31>>, <<32778,31>>, <<32783,31>>,
    <<32792,31>>, <<32799,31>>, <<32809,31>>, <<49208,31>> >>,
  <<<<32770,127>>, <<32777,127>>, <<32791,127>>, <<49192,127>>, <<32770,220>>, <<32777,220>>,
    <<32791,220>>, <<49192,220>>, <<32770,249>>, <<32777,249>>, <<32791,249>>, <<49192,249>>,
    <<49152,10>>, <<49152,13>>, <<49152,22>>, <<256,0>> >>,
  <<<<32771,127>>, <<32774,127>>, <<32778,127>>, <<32783,127>>, <<32792,127>>, <<32799,127>>,
    <<32809,127>>, <<49208,127>>, <<32771,220>>, <<32774,220>>, <<32778,220>>, <<32783,220>>,
    <<32792,220>>, <<32799,220>>, <<32809,220>>, <<49208,220>> >> >>

Rows252 == <<
  <<<<32771,249>>, <<32774,249>>, <<32778,249>>, <<32783,249>>, <<32792,249>>, <<32799,249>>,
    <<32809,249>>, <<49208,249>>, <<32769,10>>, <<49174,10>>, <<32769,13>>, <<49174,13>>,
    <<32769,22>>, <<49174,22>>, <<256,0>>, <<256,0>> >>,
  <<<<32770,10>>, <<32777,10>>, <<32791,10>>, <<49192,10>>, <<32770,13>>, <<32777,13>>,
    <<32791,13>>, <<49192,13>>, <<32770,22>>, <<32777,22>>, <<32791,22>>, <<49192,22>>,
    <<256,0>>, <<256,0>>, <<256,0>>, <<256,0>> >>,
  <<<<32771,10>>, <<32774,10>>, <<32778,10>>, <<32783,10>>, <<32792,10>>, <<32799,10>>,
    <<32809,10>>, <<49208,10>>, <<32771,13>>, <<32774,13>>, <<32778,13>>, <<32783,13>>,
    <<32792,13>>, <<32799,13>>, <<32809,13>>, <<49208,13>> >>,
  <<<<32771,22>>, <<32774,22>>, <<32778,22>>, <<32783,22>>, <<32792,22>>, <<32799,22>>,
    <<32809,22>>, <<49208,22>>, <<256,0>>, <<256,0>>, <<256,0>>, <<256,0>>, <<256,0>>,
    <<256,0>>, <<256,0>>, <<256,0>> >>,
  <<<<256,0>>, <<256,0>>, <<256,0>>, <<256,0>>, <<256,0>>, <<256,0>>, <<256,0>>, <<256,0>>,
    <<256,0>>, <<256,0>>, <<256,0>>, <<256,0>>, <<256,0>>, <<256,0>>, <<256,0>>, <<256,0>> >> >>

huff_decode_table ==
  Rows000 \o Rows007 \o Rows014 \o Rows021 \o Rows028 \o Rows035 \o Rows042 \o Rows049 \o
  Rows056 \o Rows063 \o Rows070 \o Rows077 \o Rows084 \o Rows091 \o Rows098 \o Rows105 \o
  Rows112 \o Rows119 \o Rows126 \o Rows133 \o Rows140 \o Rows147 \o Rows154 \o Rows161 \o
  Rows168 \o Rows175 \o Rows182 \o Rows189 \o Rows196 \o Rows203 \o Rows210 \o Rows217 \o
  Rows224 \o Rows231 \o Rows238 \o Rows245 \o Rows252
=============================================================================
