---------------------------- MODULE WidHandlers ----------------------------
(***************************************************************************)
(* The handlers of autopts/wid/: what the run of a test case sees of them, *)
(* besides the answer, which is PTS's affair.  A function hdl_wid_N of a   *)
(* file is the row of WID N.                                               *)
(*                                                                         *)
(* asks   it calls, itself or in a helper, a function of pybtp/btp that    *)
(*        sends a command to the IUT, and may end with a BTP error         *)
(* waits  how long its sleeps and its waits for events of the IUT can be   *)
(*        together, on its longest path: "no", "brief" (up to 90 s) or     *)
(*        "slow"; a wait in a loop over a list is counted once             *)
(*                                                                         *)
(* OnImplicitSend of ptscontrol.py waits 90 s for an answer: PTS goes on   *)
(* while a slow handler still runs.                                        *)
(***************************************************************************)
EXTENDS Naturals

Rows(file, wids, asks, waits) ==
    {[file |-> file, wid |-> w, asks |-> asks, waits |-> waits] : w \in wids}

Plain(file, wids)         == Rows(file, wids, FALSE, "no")
Asks(file, wids)          == Rows(file, wids, TRUE, "no")
Waits(file, wids)         == Rows(file, wids, FALSE, "brief")
AsksWaits(file, wids)     == Rows(file, wids, TRUE, "brief")
WaitsLong(file, wids)     == Rows(file, wids, FALSE, "slow")
AsksWaitsLong(file, wids) == Rows(file, wids, TRUE, "slow")

-----------------------------------------------------------------------------
(* wid/aics.py                                                              *)

Aics20001To13 == Asks("aics", {20001} \cup (2 .. 5) \cup (9 .. 13))

-----------------------------------------------------------------------------
(* wid/ascs.py                                                              *)

Ascs200To20001 ==
         Plain("ascs", {208})
    \cup Asks("ascs", {200, 201, 204, 206, 20001})

-----------------------------------------------------------------------------
(* wid/bap.py                                                               *)

Bap20100To104 ==
         Plain("bap", {104})
    \cup AsksWaits("bap", {100, 20100})

Bap114 == Asks("bap", {114})

Bap201To300 ==
         Plain("bap", {202, 208})
    \cup AsksWaits("bap", {201, 204, 206, 207, 300})

Bap302To303 ==
         AsksWaits("bap", {302})
    \cup AsksWaitsLong("bap", {303})

Bap304To305 == AsksWaitsLong("bap", {304, 305})

Bap306To309 ==
         AsksWaits("bap", {307, 308, 309})
    \cup AsksWaitsLong("bap", {306})

Bap310 == AsksWaits("bap", {310})

Bap311 == AsksWaitsLong("bap", {311})

Bap313To343 ==
         Asks("bap", {342, 343})
    \cup Waits("bap", {340})
    \cup AsksWaits("bap", {314})
    \cup AsksWaitsLong("bap", {313, 315})

Bap345To346 == AsksWaits("bap", {345, 346})

Bap347To348 == AsksWaits("bap", {347, 348})

Bap349To367 ==
         Plain("bap", {353, 363, 367})
    \cup Asks("bap", {357})
    \cup Waits("bap", {364, 366})
    \cup AsksWaits("bap", {349})

Bap376To384 ==
         Plain("bap", {381, 382, 384})
    \cup Asks("bap", {377, 379, 380})
    \cup Waits("bap", {376})
    \cup AsksWaits("bap", {378})

Bap387To20107 ==
         Plain("bap", {20103, 20106, 20116, 20206})
    \cup Asks("bap", {387, 20001})
    \cup AsksWaits("bap", {20107})

Bap20110To20144 ==
         Plain("bap", {20144, 20145})
    \cup Asks("bap", {20115})
    \cup AsksWaits("bap", {20110, 20121})

-----------------------------------------------------------------------------
(* wid/bass.py                                                              *)

Bass100To111 ==
         Plain("bass", {103, 104, 111})
    \cup Asks("bass", {110})
    \cup Waits("bass", {102})
    \cup AsksWaits("bass", {100, 101})

Bass113To20001 ==
         Plain("bass", {115})
    \cup Asks("bass", {20001})
    \cup AsksWaits("bass", {113, 116})

-----------------------------------------------------------------------------
(* wid/cap.py                                                               *)

Cap100To202 ==
         Plain("cap", {104})
    \cup Asks("cap", {114})
    \cup AsksWaits("cap", {100})
    \cup WaitsLong("cap", {202})

Cap309To312 ==
         Asks("cap", {310})
    \cup AsksWaits("cap", {309, 312})

Cap345 == AsksWaits("cap", {345})

Cap347To384 ==
         Plain("cap", {353, 376, 377, 384})
    \cup Asks("cap", {357})
    \cup AsksWaits("cap", {347})

Cap400To402 ==
         Plain("cap", {402})
    \cup AsksWaitsLong("cap", {400})

Cap404To412 ==
         Plain("cap", {404})
    \cup Asks("cap", {405} \cup (408 .. 412))
    \cup AsksWaits("cap", {406})

Cap413To20001 ==
         Plain("cap", {418, 20001})
    \cup Asks("cap", {415, 416, 420, 421})
    \cup Waits("cap", {414})
    \cup AsksWaits("cap", {413})
    \cup AsksWaitsLong("cap", {419})

Cap20100To20200 ==
         Plain("cap", {20101, 20106, 20200})
    \cup Asks("cap", {20115, 20128})
    \cup AsksWaits("cap", {20110})
    \cup AsksWaitsLong("cap", {20100})

-----------------------------------------------------------------------------
(* wid/cas.py                                                               *)

Cas20001To20128 == Asks("cas", {20001, 20128})

-----------------------------------------------------------------------------
(* wid/ccp.py                                                               *)

Ccp104To115 == AsksWaits("ccp", {104} \cup (112 .. 115))

Ccp20001To20116 ==
         Asks("ccp", {20001})
    \cup AsksWaits("ccp", {20103, 20106, 20107, 20116})

Ccp20121To20206 ==
         Plain("ccp", {20144, 20145, 20206})
    \cup Asks("ccp", {20121})

-----------------------------------------------------------------------------
(* wid/csip.py                                                              *)

Csip3To20001 ==
         Plain("csip", {3, 4, 9, 10, 12, 13, 14})
    \cup Asks("csip", {5, 20001})
    \cup AsksWaits("csip", {11})

Csip20100To20108 ==
         Plain("csip", {20106, 20108})
    \cup AsksWaits("csip", {20101, 20103, 20107})
    \cup AsksWaitsLong("csip", {20100})

Csip20110To20206 ==
         Asks("csip", {20115, 20128})
    \cup AsksWaits("csip", {20110, 20116, 20206})

-----------------------------------------------------------------------------
(* wid/csis.py                                                              *)

Csis1To20128 ==
         Plain("csis", {2, 7, 20108})
    \cup Asks("csis", {1, 20, 21, 20001, 20128})

-----------------------------------------------------------------------------
(* wid/dis.py                                                               *)

Dis20001 == Asks("dis", {20001})

-----------------------------------------------------------------------------
(* wid/gap.py                                                               *)

Gap4To29 ==
         Asks("gap", {5, 20, 21, 29} \cup (9 .. 14) \cup (23 .. 27))
    \cup AsksWaits("gap", {4})

Gap35To54 ==
         Asks("gap", {35, 40, 47} \cup (49 .. 54))
    \cup AsksWaits("gap", {44, 46})

Gap55To76 ==
         Asks("gap", {55, 56, 57, 59, 60, 72, 74, 75, 76})
    \cup AsksWaits("gap", {73})

Gap77To104 ==
         Plain("gap", {83, 84, 85, 89})
    \cup Asks("gap", {78, 79, 80, 82, 90, 91, 104})
    \cup AsksWaits("gap", {77, 100})

Gap106To125 ==
         Plain("gap", {118, 120, 124})
    \cup Asks("gap", {121, 122})
    \cup AsksWaits("gap", {106, 112, 114, 125})
    \cup AsksWaitsLong("gap", {108})

Gap127To139 ==
         Plain("gap", {130, 137})
    \cup Asks("gap", {135, 136, 139})
    \cup AsksWaits("gap", {127, 138})

Gap141To158 ==
         Plain("gap", {141, 158})
    \cup Asks("gap", {142, 144, 149} \cup (152 .. 156))
    \cup Waits("gap", {143})
    \cup AsksWaits("gap", {148, 157})

Gap159To204 ==
         Plain("gap", 176 .. 179)
    \cup Asks("gap", {159, 161, 169, 173, 174})
    \cup AsksWaits("gap", {162, 204})

Gap206To232 ==
         Plain("gap", {209, 210, 225, 226})
    \cup Asks("gap", {224, 232})
    \cup AsksWaits("gap", {206, 227})
    \cup AsksWaitsLong("gap", {208})

Gap234To242 ==
         Plain("gap", {242})
    \cup Asks("gap", {240, 241})
    \cup Waits("gap", 236 .. 239)
    \cup AsksWaits("gap", {234, 235})

Gap243To248 == Asks("gap", {243, 246, 247, 248})

Gap265To402 ==
         Plain("gap", {267})
    \cup Asks("gap", {305, 307, 308, 400, 402})
    \cup Waits("gap", {304, 309})
    \cup AsksWaits("gap", {265} \cup (300 .. 303))

Gap403To501 ==
         Plain("gap", {405})
    \cup Asks("gap", {403, 404, 406, 407, 450, 451, 500, 501})

Gap502To2004 ==
         Asks("gap", {1000})
    \cup Waits("gap", {1002, 2000})
    \cup AsksWaits("gap", {502, 1003, 2001, 2004})

Gap20001To146 ==
         Plain("gap", {145, 222})
    \cup Asks("gap", {31, 32, 34, 105, 160, 2142, 20001, 20115})
    \cup AsksWaits("gap", {33, 146, 20100})

Gap147To231 ==
         Plain("gap", {164, 166, 251})
    \cup AsksWaits("gap", {102, 147, 165, 231, 264})

Gap103To86 ==
         Plain("gap", {167})
    \cup Asks("gap", {151})
    \cup AsksWaits("gap", {7, 36, 86, 123, 20117})
    \cup AsksWaitsLong("gap", {103})

Gap252To216 ==
         Plain("gap", {213, 221, 252} \cup (255 .. 263))
    \cup Waits("gap", {266})
    \cup AsksWaits("gap", {216, 217, 220})

Gap273To355 ==
         Plain("gap", {274, 350, 351, 353})
    \cup AsksWaits("gap", {273, 352, 354})
    \cup WaitsLong("gap", {355})

Gap356To357 ==
         Asks("gap", {356})
    \cup AsksWaits("gap", {357})

-----------------------------------------------------------------------------
(* wid/gatt.py                                                              *)

Gatt1To20 ==
         Plain("gatt", {11, 16, 19, 21})
    \cup Asks("gatt", {2, 3, 4, 17})
    \cup AsksWaits("gatt", {1, 10, 12, 15, 18, 20})

Gatt22To24 == Asks("gatt", {22, 23, 24})

Gatt25To35 ==
         Plain("gatt", {26, 28, 30, 32, 34, 35})
    \cup Asks("gatt", {25})
    \cup AsksWaits("gatt", {27, 29, 31})

Gatt36To51 ==
         Plain("gatt", {49, 50} \cup (40 .. 47))
    \cup Asks("gatt", {36})
    \cup AsksWaits("gatt", {48, 51})

Gatt52To65 ==
         Plain("gatt", {55, 59} \cup (61 .. 65))
    \cup Asks("gatt", {52, 56})
    \cup AsksWaits("gatt", {53, 57, 58})

Gatt66To76 ==
         Plain("gatt", {66, 67, 71, 75})
    \cup AsksWaits("gatt", {69, 70, 72, 74, 76})

Gatt77To93 ==
         Plain("gatt", {82, 90})
    \cup Asks("gatt", {93})
    \cup AsksWaits("gatt", {77, 80, 81, 91, 92})

Gatt95To102 ==
         Plain("gatt", {95, 96})
    \cup Asks("gatt", {102})
    \cup Waits("gatt", {97})
    \cup AsksWaits("gatt", {98, 99})

Gatt104To111 ==
         Plain("gatt", {107})
    \cup Asks("gatt", {104, 110, 111})
    \cup AsksWaits("gatt", {108, 109})

Gatt112To115 == Asks("gatt", 112 .. 115)

Gatt118To121 == Asks("gatt", 118 .. 121)

Gatt122To140 ==
         Plain("gatt", {133, 134, 137})
    \cup Asks("gatt", {122, 130, 132, 136, 138})
    \cup AsksWaits("gatt", {135, 140})

Gatt141To150 ==
         Plain("gatt", {149})
    \cup Asks("gatt", {139, 144, 145})
    \cup AsksWaits("gatt", {141, 142, 147, 148, 150})

Gatt151To308 ==
         Plain("gatt", {154})
    \cup Asks("gatt", {151, 152, 167, 304, 308})

Gatt400To2000 ==
         Plain("gatt", {502})
    \cup Waits("gatt", {400, 2000})

-----------------------------------------------------------------------------
(* wid/gatt_client.py                                                       *)

GattClient1To17 ==
         Plain("gatt_client", {16})
    \cup Asks("gatt_client", {1, 2, 4})
    \cup Waits("gatt_client", {11, 17})
    \cup AsksWaits("gatt_client", {3, 10, 12, 15})

GattClient18To26 ==
         Plain("gatt_client", {24, 26})
    \cup Waits("gatt_client", {19, 21})
    \cup AsksWaits("gatt_client", {18, 20})

GattClient27To32 ==
         Waits("gatt_client", {28, 30, 32})
    \cup AsksWaits("gatt_client", {27, 29, 31})

GattClient34To46 ==
         Plain("gatt_client", {34})
    \cup Waits("gatt_client", {35} \cup (40 .. 46))

GattClient47To53 ==
         Plain("gatt_client", {49})
    \cup Waits("gatt_client", {47, 50, 52})
    \cup AsksWaits("gatt_client", {48, 51, 53})

GattClient55To63 ==
         Waits("gatt_client", {55, 59, 61, 62, 63})
    \cup AsksWaits("gatt_client", {57, 58})

GattClient64To72 ==
         Plain("gatt_client", {71})
    \cup Waits("gatt_client", 64 .. 67)
    \cup AsksWaits("gatt_client", {69, 70, 72})

GattClient74To90 ==
         Plain("gatt_client", {82})
    \cup Waits("gatt_client", {90})
    \cup AsksWaits("gatt_client", {74, 76, 77, 80, 81})

GattClient91To141 ==
         Waits("gatt_client", {95})
    \cup AsksWaits("gatt_client", {91, 99, 108, 109, 140, 141})

GattClient147To502 ==
         Plain("gatt_client", {502})
    \cup AsksWaits("gatt_client", {147, 150})

-----------------------------------------------------------------------------
(* wid/gmcs.py                                                              *)

Gmcs4To32 == Asks("gmcs", {4, 32} \cup (7 .. 14))

Gmcs44To20142 ==
         Plain("gmcs", {20109, 20141, 20142})
    \cup Asks("gmcs", {44, 45, 20001})

-----------------------------------------------------------------------------
(* wid/gtbs.py                                                              *)

Gtbs1 == Plain("gtbs", {1})

-----------------------------------------------------------------------------
(* wid/hap.py                                                               *)

Hap462To469 ==
         Plain("hap", {467})
    \cup Asks("hap", {468, 469} \cup (462 .. 466))

Hap470To480 ==
         Plain("hap", {474, 479, 480})
    \cup Asks("hap", {478} \cup (470 .. 473))
    \cup Waits("hap", {477})
    \cup AsksWaits("hap", {476})

Hap481To493 ==
         Plain("hap", {490, 493})
    \cup Asks("hap", {491})
    \cup AsksWaits("hap", {481, 482, 489})

Hap20001To20128 ==
         Asks("hap", {20001, 20121, 20128})
    \cup AsksWaits("hap", {20100, 20103, 20105, 20106, 20107, 20116})

Hap20137To20206 ==
         Plain("hap", {20144, 20206})
    \cup AsksWaits("hap", {20137})

-----------------------------------------------------------------------------
(* wid/has.py                                                               *)

Has450To20109 ==
         Plain("has", {20002, 20108, 20109})
    \cup Asks("has", {457, 492, 494, 20001} \cup (450 .. 454))

-----------------------------------------------------------------------------
(* wid/ias.py                                                               *)

Ias20001To20207 ==
         Asks("ias", {20001})
    \cup Waits("ias", {0, 1, 2, 20207})

-----------------------------------------------------------------------------
(* wid/l2cap.py                                                             *)

L2cap14To40 ==
         Plain("l2cap", {36, 37, 39, 40})
    \cup Asks("l2cap", {14, 15})
    \cup AsksWaits("l2cap", {22, 38})

L2cap41To57 ==
         Plain("l2cap", {42, 48, 52, 53, 54})
    \cup Asks("l2cap", {55, 56})
    \cup AsksWaits("l2cap", {41, 43, 51, 57})

L2cap58To118 ==
         Plain("l2cap", {58, 60, 61, 111, 112, 118} \cup (104 .. 107))
    \cup Asks("l2cap", {100, 101, 102})
    \cup AsksWaits("l2cap", {59, 103, 108})

L2cap135To267 ==
         Plain("l2cap", {135, 136, 137, 259, 260})
    \cup Asks("l2cap", {257, 258})
    \cup Waits("l2cap", {138, 256, 261} \cup (251 .. 254))
    \cup AsksWaits("l2cap", {255, 262, 267})

L2cap268To23 ==
         Plain("l2cap", {113, 270, 272, 274, 275, 20128})
    \cup Asks("l2cap", {23, 20001, 20100})
    \cup Waits("l2cap", {271, 2000})
    \cup AsksWaits("l2cap", {116, 268})
    \cup AsksWaitsLong("l2cap", {49})

L2cap276To32 ==
         Plain("l2cap", {7, 9, 32, 35, 114, 128, 129, 130, 277})
    \cup Asks("l2cap", {1, 26, 134, 276})

L2cap34To124 ==
         Plain("l2cap", {8, 10, 17, 19, 20, 34, 115, 121, 124, 131})
    \cup Asks("l2cap", {2, 3, 18})
    \cup AsksWaits("l2cap", {6, 119})

L2cap125To265 ==
         Plain("l2cap", {125, 264, 265})
    \cup Asks("l2cap", {4, 24, 25, 50, 62})
    \cup AsksWaits("l2cap", {33, 263})

-----------------------------------------------------------------------------
(* wid/mcp.py                                                               *)

Mcp15To40 ==
         Plain("mcp", {15, 16})
    \cup AsksWaits("mcp", 33 .. 40)

Mcp41To20106 ==
         Asks("mcp", {20001})
    \cup AsksWaits("mcp", {41, 20100, 20103, 20106})

Mcp20107To20116 ==
         Plain("mcp", {20109})
    \cup AsksWaits("mcp", {20107, 20110, 20116})

Mcp20121To20146 ==
         Plain("mcp", {20144, 20145, 20146, 20206})
    \cup AsksWaits("mcp", {20121, 20136})

-----------------------------------------------------------------------------
(* wid/mesh.py                                                              *)

Mesh6To15 ==
         Plain("mesh", {10, 15})
    \cup Asks("mesh", {7, 8, 12, 13})
    \cup AsksWaits("mesh", {6})

Mesh17To23 ==
         Plain("mesh", {17, 18, 20})
    \cup Asks("mesh", {19, 21, 22, 23})

Mesh24To34 ==
         Plain("mesh", {24, 26, 30, 34})
    \cup Asks("mesh", {33})
    \cup Waits("mesh", {31})

Mesh35To43 ==
         Plain("mesh", {35, 39, 40, 43})
    \cup Asks("mesh", {36, 38})
    \cup Waits("mesh", {37})

Mesh44To56 ==
         Plain("mesh", {51, 52, 53, 55, 56})
    \cup Asks("mesh", {44, 45, 46})

Mesh81To201 ==
         Plain("mesh", {84, 85, 90, 201} \cup (94 .. 98))
    \cup Asks("mesh", {81, 83, 103})
    \cup Waits("mesh", {104})

Mesh202To220 ==
         Plain("mesh", {203, 204, 205, 212, 219, 220})
    \cup Asks("mesh", {202, 210, 216, 217})
    \cup WaitsLong("mesh", {218})

Mesh221To232 ==
         Plain("mesh", {224, 227, 230})
    \cup Asks("mesh", {221, 222, 223, 225, 226, 228, 229, 231, 232})

Mesh255To275 ==
         Plain("mesh", {234, 255, 260, 261, 262} \cup (267 .. 274))
    \cup Asks("mesh", {275})

Mesh276To286 ==
         Plain("mesh", 280 .. 285)
    \cup Asks("mesh", {286} \cup (276 .. 279))

Mesh287To312 ==
         Plain("mesh", {302, 304, 305, 306, 310, 311})
    \cup Asks("mesh", {287, 288, 289, 303, 308, 312})

Mesh313To337 ==
         Plain("mesh", {317, 318, 319, 324, 327, 329, 330, 335, 336, 337})
    \cup Asks("mesh", {313, 314, 315, 326})
    \cup Waits("mesh", {332, 333})

Mesh339To368 ==
         Plain("mesh", {344, 345, 348, 361, 362, 364, 366, 367, 368} \cup (339
                        .. 342) \cup (353 .. 358))
    \cup Asks("mesh", {346})
    \cup AsksWaits("mesh", {347})

Mesh371To505 ==
         Plain("mesh", {371, 372, 373, 423})
    \cup Asks("mesh", {394, 395} \cup (501 .. 505))
    \cup AsksWaits("mesh", {500})

Mesh506To511 ==
         Plain("mesh", {506, 509})
    \cup Asks("mesh", {507, 508, 510, 511})

Mesh514 == Asks("mesh", {514})

Mesh515 == Plain("mesh", {515})

Mesh516To526 ==
         Plain("mesh", {516, 517} \cup (526 .. 529))
    \cup Asks("mesh", {518, 519, 520, 522})
    \cup Waits("mesh", {521})

Mesh550To600 ==
         Plain("mesh", {552, 557, 562})
    \cup Asks("mesh", {550, 551, 555, 556, 600})
    \cup Waits("mesh", {560, 561, 563, 564})

Mesh601To604 == Plain("mesh", {601, 603, 604})

Mesh605To626 ==
         Plain("mesh", {606, 625, 626})
    \cup Asks("mesh", {605})

Mesh650 == Asks("mesh", {650})

Mesh661To706 ==
         Plain("mesh", {652, 674})
    \cup Asks("mesh", {700, 701, 703, 704, 706})
    \cup AsksWaits("mesh", {661, 672, 702, 705})

Mesh707To884 ==
         Plain("mesh", {708, 712, 713, 714})
    \cup Asks("mesh", {707, 709, 710, 711, 881, 882, 884})
    \cup AsksWaits("mesh", {715})

Mesh885To889 == Asks("mesh", 885 .. 889)

Mesh891To923 ==
         Plain("mesh", {891})
    \cup Asks("mesh", 920 .. 923)

Mesh924To945 == Asks("mesh", {924, 925, 926} \cup (940 .. 945))

Mesh946To20200 ==
         Plain("mesh", {950, 951, 20200})
    \cup Asks("mesh", {946} \cup (952 .. 955))
    \cup AsksWaits("mesh", {20101, 20103})

Mesh20201 == Plain("mesh", {20201})

-----------------------------------------------------------------------------
(* wid/micp.py                                                              *)

Micp2To20106 ==
         Plain("micp", {20103, 20106})
    \cup AsksWaits("micp", {2, 20100} \cup (5 .. 10))

Micp20107To20116 ==
         Plain("micp", {20116})
    \cup AsksWaits("micp", {20107, 20110})

Micp20206To20145 == Plain("micp", {20145, 20206})

-----------------------------------------------------------------------------
(* wid/mics.py                                                              *)

Mics20001To6 ==
         Asks("mics", {20001})
    \cup AsksWaits("mics", {1, 5, 6})

-----------------------------------------------------------------------------
(* wid/mmdl.py                                                              *)

Mmdl13To652 ==
         Plain("mmdl", {346, 515, 523, 525, 526, 652})
    \cup Asks("mmdl", {13, 303, 304})
    \cup AsksWaits("mmdl", {630, 631})

Mmdl660To669 ==
         Plain("mmdl", {660})
    \cup Asks("mmdl", {664, 665})
    \cup AsksWaits("mmdl", {661, 663} \cup (666 .. 669))

Mmdl670To858 ==
         Plain("mmdl", {671, 854, 857, 858})
    \cup Asks("mmdl", {853})
    \cup Waits("mmdl", {852})
    \cup AsksWaits("mmdl", {670, 850, 851, 855, 856})

Mmdl859To993 ==
         Plain("mmdl", {861})
    \cup Asks("mmdl", {860, 970, 977, 989, 992, 993})
    \cup Waits("mmdl", {859})
    \cup AsksWaits("mmdl", {990, 991})

-----------------------------------------------------------------------------
(* wid/ots.py                                                               *)

Ots0To20109 ==
         Plain("ots", {0, 1, 2, 150, 20109})
    \cup Asks("ots", {20001})

-----------------------------------------------------------------------------
(* wid/pacs.py                                                              *)

Pacs1To20108 ==
         Plain("pacs", 7 .. 14)
    \cup Asks("pacs", {20001, 20108} \cup (1 .. 6))

-----------------------------------------------------------------------------
(* wid/pbp.py                                                               *)

Pbp100To378 ==
         Plain("pbp", {104, 353, 377})
    \cup Waits("pbp", {376})
    \cup AsksWaits("pbp", {100, 378, 551})

Pbp552 == Asks("pbp", {552})

-----------------------------------------------------------------------------
(* wid/rfcomm.py                                                            *)

Rfcomm0To14 ==
         Plain("rfcomm", {9, 11, 12, 13} \cup (0 .. 7))
    \cup Asks("rfcomm", {14})
    \cup AsksWaits("rfcomm", {8})

Rfcomm17To23 ==
         Plain("rfcomm", {17, 18})
    \cup Asks("rfcomm", {22, 23})
    \cup AsksWaits("rfcomm", {20})

-----------------------------------------------------------------------------
(* wid/sdp.py                                                               *)

Sdp6000To6008 ==
         Plain("sdp", {1, 6008} \cup (6000 .. 6003))
    \cup Asks("sdp", {6007})
    \cup AsksWaits("sdp", {102})

-----------------------------------------------------------------------------
(* wid/sm.py                                                                *)

Sm100To143 ==
         Plain("sm", {111, 116, 143})
    \cup Asks("sm", {101, 107, 115})
    \cup Waits("sm", {106, 141})
    \cup AsksWaits("sm", {100, 102, 104, 108, 109, 110, 142})

Sm145To171 ==
         Plain("sm", {112, 145, 146, 154, 155, 156, 20117})
    \cup Asks("sm", {147, 148, 149, 171, 20001, 20100, 20115})
    \cup Waits("sm", {152, 173, 175, 1009, 20011})
    \cup AsksWaits("sm", {172, 174})

-----------------------------------------------------------------------------
(* wid/tbs.py                                                               *)

Tbs101To20108 ==
         Plain("tbs", {116, 117, 20002, 20108})
    \cup Asks("tbs", {101, 106, 110, 111, 118, 120, 20001})
    \cup Waits("tbs", {2000})

Tbs20141To20142 == Asks("tbs", {20141, 20142})

-----------------------------------------------------------------------------
(* wid/tmap.py                                                              *)

Tmap100To114 ==
         Plain("tmap", {104})
    \cup Asks("tmap", {114})
    \cup AsksWaits("tmap", {100})

Tmap311 == AsksWaitsLong("tmap", {311})

Tmap353To503 ==
         Plain("tmap", {353, 364, 367, 377, 384, 500})
    \cup Asks("tmap", {502, 503})
    \cup Waits("tmap", {376})
    \cup AsksWaits("tmap", {501})

Tmap504 == AsksWaitsLong("tmap", {504})

Tmap506To517 ==
         Plain("tmap", {507, 516, 517})
    \cup Asks("tmap", {506, 511, 512, 514})

Tmap521To20106 ==
         Plain("tmap", {522})
    \cup Asks("tmap", {20001})
    \cup AsksWaits("tmap", {2004, 20100, 20103, 20106})
    \cup AsksWaitsLong("tmap", {521})

Tmap20107To20206 ==
         Plain("tmap", {20206})
    \cup Asks("tmap", {20110})
    \cup AsksWaits("tmap", {20107, 20116})

-----------------------------------------------------------------------------
(* wid/vcp.py                                                               *)

Vcp5To20106 ==
         Plain("vcp", {20103, 20106})
    \cup AsksWaits("vcp", {20100} \cup (5 .. 10))

Vcp20107To20110 == AsksWaits("vcp", {20107, 20110})

Vcp20116To20206 ==
         Plain("vcp", {20116, 20144, 20206})
    \cup Asks("vcp", {20121})

-----------------------------------------------------------------------------
(* wid/vcs.py                                                               *)

Vcs20001To4 == Asks("vcs", {20001} \cup (1 .. 4))

-----------------------------------------------------------------------------
(* wid/vocs.py                                                              *)

Vocs20001To12 == Asks("vocs", {12, 13, 20001})
-----------------------------------------------------------------------------
WidHandlers ==
    UNION {
      Aics20001To13, Ascs200To20001, Bap20100To104, Bap114, Bap201To300,
      Bap302To303, Bap304To305, Bap306To309, Bap310, Bap311, Bap313To343,
      Bap345To346, Bap347To348, Bap349To367, Bap376To384, Bap387To20107,
      Bap20110To20144, Bass100To111, Bass113To20001, Cap100To202, Cap309To312,
      Cap345, Cap347To384, Cap400To402, Cap404To412, Cap413To20001,
      Cap20100To20200, Cas20001To20128, Ccp104To115, Ccp20001To20116,
      Ccp20121To20206, Csip3To20001, Csip20100To20108, Csip20110To20206,
      Csis1To20128, Dis20001, Gap4To29, Gap35To54, Gap55To76, Gap77To104,
      Gap106To125, Gap127To139, Gap141To158, Gap159To204, Gap206To232,
      Gap234To242, Gap243To248, Gap265To402, Gap403To501, Gap502To2004,
      Gap20001To146, Gap147To231, Gap103To86, Gap252To216, Gap273To355,
      Gap356To357, Gatt1To20, Gatt22To24, Gatt25To35, Gatt36To51, Gatt52To65,
      Gatt66To76, Gatt77To93, Gatt95To102, Gatt104To111, Gatt112To115,
      Gatt118To121, Gatt122To140, Gatt141To150, Gatt151To308, Gatt400To2000,
      GattClient1To17, GattClient18To26, GattClient27To32, GattClient34To46,
      GattClient47To53, GattClient55To63, GattClient64To72, GattClient74To90,
      GattClient91To141, GattClient147To502, Gmcs4To32, Gmcs44To20142, Gtbs1,
      Hap462To469, Hap470To480, Hap481To493, Hap20001To20128, Hap20137To20206,
      Has450To20109, Ias20001To20207, L2cap14To40, L2cap41To57, L2cap58To118,
      L2cap135To267, L2cap268To23, L2cap276To32, L2cap34To124, L2cap125To265,
      Mcp15To40, Mcp41To20106, Mcp20107To20116, Mcp20121To20146, Mesh6To15,
      Mesh17To23, Mesh24To34, Mesh35To43, Mesh44To56, Mesh81To201, Mesh202To220,
      Mesh221To232, Mesh255To275, Mesh276To286, Mesh287To312, Mesh313To337,
      Mesh339To368, Mesh371To505, Mesh506To511, Mesh514, Mesh515, Mesh516To526,
      Mesh550To600, Mesh601To604, Mesh605To626, Mesh650, Mesh661To706,
      Mesh707To884, Mesh885To889, Mesh891To923, Mesh924To945, Mesh946To20200,
      Mesh20201, Micp2To20106, Micp20107To20116, Micp20206To20145, Mics20001To6,
      Mmdl13To652, Mmdl660To669, Mmdl670To858, Mmdl859To993, Ots0To20109,
      Pacs1To20108, Pbp100To378, Pbp552, Rfcomm0To14, Rfcomm17To23,
      Sdp6000To6008, Sm100To143, Sm145To171, Tbs101To20108, Tbs20141To20142,
      Tmap100To114, Tmap311, Tmap353To503, Tmap504, Tmap506To517,
      Tmap521To20106, Tmap20107To20206, Vcp5To20106, Vcp20107To20110,
      Vcp20116To20206, Vcs20001To4, Vocs20001To12}
============================================================================
