\* Three services, one of them in a directory that matches the path of another.
SPECIFICATION Spec
CONSTANTS
  app = app
  helper = helper
  lib = lib
  AppIds = {id1, id2, js}
  JsServer = js
  Paths = {app, helper, lib}
  Home <- MCHome
  Contains <- MCNested
  Stacks <- MCStacks
  MaxFrames = 2
  Empty = Empty
  Null = Null
INVARIANTS IdOfContainingService
PROPERTIES IdOfFirstFound
