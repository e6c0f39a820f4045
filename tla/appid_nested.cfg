\* The path of one service is a substring of the directory of another.
SPECIFICATION Spec
CONSTANTS
  app = app
  helper = helper
  lib = lib
  AppIds = {id1, id2, js}
  JsServer = js
  Paths = {app, helper, lib}
  Home <- MCHome
  Contains <- MCNested
  Stacks <- MCStacks
  MaxFrames = 2
  Empty = Empty
  Null = Null
PROPERTIES IdOfInnermostService
